---- MODULE Spec2Model ----
(***************************************************************************)
(* Verification model of Inversionson's iteration core:                    *)
(*   - the minibatch selector, LasifComponent.get_minibatch                *)
(*     (src/inversionson/components/lasif_comp.py);                        *)
(*   - the simulation dispatch coordinator as it is driven by              *)
(*     Optimize.run_forward / compute_misfit / compute_gradient            *)
(*     (src/inversionson/optimizers/optimizer.py).  The helper classes     *)
(*     ForwardHelper / AdjointHelper (inversionson.helpers) are not part   *)
(*     of the sources at hand; their behaviour follows spec.md, 4.2 and 5; *)
(*   - the artifact store, Optimize.get_h5_data / set_h5_data, the         *)
(*     iteration numbering, the start-up of Optimize.__init__ and          *)
(*     Optimize.prepare_iteration (optimizer.py);                          *)
(*   - the controller's task sequence over Optimize.available_tasks; the   *)
(*     loop that walks it lives in the derived optimizers, which are not   *)
(*     part of the sources at hand; it follows spec.md, 4.3.               *)
(***************************************************************************)
EXTENDS Integers, Sequences, FiniteSets, TLC

(* ------------------------------ bounds --------------------------------- *)
\* number of events in the LASIF project (the selector's universe)
NumCatalog == 3
\* largest configured batch size / num_events
MaxQuota == 3
\* number of events of an iteration
NumEvents == 2
\* iterations run 0..MaxIter
MaxIter == 1
\* submissions the remote site accepts in a run of the model
MaxJobs == 4
\* polls a retrieve call waits before its timeout expires
PollTimeout == 1
\* parameters stored in a model artifact (its DIMENSION_LABELS)
NumLabels == 3
\* longest configured parameter list
MaxParams == 2
\* values of a stored slice are 0..MaxVal
MaxVal == 1
\* models 0..MaxModel can be on disk
MaxModel == 2

VARIABLES
    sel_pc,     \* "idle" | "done" | "repeated": position of the selector's caller
    sel_in,     \* the inputs of the call of get_minibatch under observation
    sel_out,    \* what that call produced: a batch or a raised exception
    sel_out2,   \* what a second call with the same inputs produced
    nprocs,     \* controller processes started on the project (1, or 2 side by side)
    multi_mesh, \* comm.project.meshes == "multi-mesh"
    iteration,  \* number of the current iteration
    mesh,       \* per event: mesh preparation for the current iteration
    jobs,       \* every job submitted to the remote site, in order of submission
    table,      \* the persisted job-status table: key -> identifier of its job
    pc,         \* per process: where it stands in its current task
    task,       \* per process: the task it runs
    todo,       \* per process: events its dispatch loop has not handled yet
    cur,        \* per process: the event it is about to submit
    seen,       \* per process: number of submissions at the moment it read the table
    ret,        \* per process: job identifier its last dispatch handed back
    timer,      \* per process: polls left before the retrieve timeout
    adjoint,    \* per process: compute_misfit's adjoint flag
    outcome,    \* per process: how its last task ended
    raced,      \* history: a process submitted after the table it had read was outdated
    art_store,  \* the artifacts on disk: filename -> dimension labels and stored tensor
    art_pc,     \* "idle" | "written" | "read": position of the artifact store's caller
    art_in,     \* the write under observation: filename, self.parameters, data
    art_pre,    \* history: the artifacts as they were before that write
    art_out,    \* what set_h5_data produced
    art_read,   \* what the get_h5_data after it produced
    model_dir,  \* the directory of the model artifacts, <<>> before there is a project
    models,     \* numbers of the model artifacts in model_dir
    it_num,     \* what the last reading of iteration_number produced
    config,     \* opt_config.toml: whether it exists, its initial_model
    run,        \* "off" | "halted" | "failed" | "up": how the last start ended
    dirs_init,  \* history: _init_directories has been called
    first_task, \* history: _issue_first_task has been called
    init_found, \* history: the models on disk at the latest start that initialized
    cur_iter,   \* the project's attribute current_iteration
    lasif_its,  \* the iterations registered in the LASIF project
    it_tomls,   \* the iterations that have a bookkeeping record (iteration toml)
    mesh_moved, \* the iterations the mesh has been moved for
    stf_up,     \* the iterations the source time function has been uploaded for
    prep_pc,    \* "idle" | "called": position of prepare_iteration's caller
    prep_in,    \* the iteration name of the call under observation
    prep_events,\* the events argument of that call
    prep_pre,   \* history: the project as it was before that call
    prep_out,   \* what that call produced
    cursor,     \* the persisted current task: iteration and index in available_tasks
    ctl_pc,     \* "ready" | "running" | "down": the controller process
    mem,        \* the controller's position in memory
    started,    \* history: the stages taken up, as (iteration, task)
    done,       \* history: the stages that completed
    resumed,    \* history: the process was restarted since the last completed stage
    mesh_store, \* the remote mesh folder: per event the stored mesh
    long_term,  \* the remote long-term mesh folder: per event the stored mesh
    std_grad,   \* the mesh folder holds standard_gradient/mesh.h5
    w_pc,       \* the remote worker's position in its script
    w_in,       \* the input document of the run: gradient, event; from_mesh.h5 is there
    to_mesh,    \* the run's ./to_mesh.h5
    out_mesh,   \* the run's ./output/mesh.h5
    sim_doc,    \* the run's ./output/simulation_dict.toml exists
    w_exit,     \* "none" | "ok" | "fatal": how the run ended
    w_log,      \* history: what the run did, in order
    w_pre,      \* history: the mesh folders as they were when the run started
    gradients,  \* the iterations whose gradient artifact is on disk
    upd_pc      \* "idle" | "retrieved" | "passed" | "failed" | "written": the update step

sel_vars == <<sel_pc, sel_in, sel_out, sel_out2>>

d_vars == <<nprocs, multi_mesh, iteration, mesh, jobs, table, pc, task, todo,
            cur, seen, ret, timer, adjoint, outcome, raced>>

a_vars == <<art_store, art_pc, art_in, art_pre, art_out, art_read>>

\* everything but the selector and the dispatch coordinator
s_vars == <<model_dir, models, it_num, config, run, dirs_init, first_task, init_found>>

p_vars == <<cur_iter, lasif_its, it_tomls, mesh_moved, stf_up, prep_pc, prep_in, prep_events,
            prep_pre, prep_out>>

c_vars == <<cursor, ctl_pc, mem, started, done, resumed>>

w_vars == <<mesh_store, long_term, std_grad, w_pc, w_in, to_mesh, out_mesh, sim_doc, w_exit,
            w_log, w_pre>>

u_vars == <<gradients, upd_pc>>

x_vars == <<a_vars, s_vars, p_vars, c_vars, w_vars, u_vars>>

vars == <<sel_vars, d_vars, x_vars>>

(* ----------------------- Python values ---------------------------------- *)
(* The selector mixes ints, lists and sets; Python's operators are typed,   *)
(* so values carry their type.                                              *)
PyInt(n)  == [t |-> "int",   i |-> n, l |-> <<>>, s |-> {}, e |-> ""]
PyList(q) == [t |-> "list",  i |-> 0, l |-> q,    s |-> {}, e |-> ""]
PySet(S)  == [t |-> "set",   i |-> 0, l |-> <<>>, s |-> S,  e |-> ""]
PyErr(x)  == [t |-> "error", i |-> 0, l |-> <<>>, s |-> {}, e |-> x]

Range(q) == {q[k] : k \in 1..Len(q)}

\* a - b: defined on numbers and on sets (difference); int - list raises
PySub(a, b) ==
    IF a.t = "int" /\ b.t = "int" THEN PyInt(a.i - b.i)
    ELSE IF a.t = "set" /\ b.t = "set" THEN PySet(a.s \ b.s)
    ELSE PyErr("TypeError")

\* a + b: defined on numbers and on lists (concatenation); set + set raises
PyAdd(a, b) ==
    IF a.t = "int" /\ b.t = "int" THEN PyInt(a.i + b.i)
    ELSE IF a.t = "list" /\ b.t = "list" THEN PyList(a.l \o b.l)
    ELSE PyErr("TypeError")

\* set(x) of a list
PySetOf(a) ==
    IF a.t = "list" THEN PySet(Range(a.l))
    ELSE IF a.t = "set" THEN a
    ELSE PyErr("TypeError")

\* all duplicate-free sequences enumerating exactly the set S
Orderings(S) ==
    {q \in [1..Cardinality(S) -> S] : \A a, b \in 1..Cardinality(S) : (a # b) => (q[a] # q[b])}

\* all duplicate-free sequences of n elements of S
Arrangements(S, n) ==
    UNION {Orderings(T) : T \in {U \in SUBSET S : Cardinality(U) = n}}

\* list(x) of a set: Python fixes no iteration order for a set of strings
PyListOfSet(a) ==
    IF a.t = "set" THEN {PyList(q) : q \in Orderings(a.s)}
    ELSE IF a.t = "list" THEN {a}
    ELSE {PyErr(IF a.t = "error" THEN a.e ELSE "TypeError")}

(* ----------------------- outcomes of a call ----------------------------- *)
Returned(q) == [kind |-> "batch", batch |-> q, err |-> ""]
Raised(x)   == [kind |-> "error", batch |-> <<>>, err |-> x]
NoResult    == [kind |-> "none",  batch |-> <<>>, err |-> ""]

\* the catalog in the order LASIF lists it
RECURSIVE SortedSeq(_)
SortedSeq(S) ==
    IF S = {} THEN <<>>
    ELSE LET m == CHOOSE x \in S : \A y \in S : x <= y
         IN  <<m>> \o SortedSeq(S \ {m})

(* lapi.get_subset(comm, count, events, existing_events): an evenly spread  *)
(* choice of count events out of events, none of them an existing one;      *)
(* it refuses when the events on offer cannot fill count.                   *)
get_subset(count, events, existing) ==
    LET avail == Range(events) \ existing
    IN  IF count > Cardinality(avail) THEN {Raised("SelectionExhausted")}
        ELSE IF count <= 0 THEN {Returned(<<>>)}
        ELSE {Returned(q) : q \in Arrangements(avail, count)}

(* ----------------------- get_minibatch ---------------------------------- *)
(* Inputs of a call, as the collaborators hand them over:                   *)
(*   first         the flag of the call                                     *)
(*   events        self.list_events()                                       *)
(*   num_events    salvus_opt task input "num_events"      (first call)     *)
(*   batch_size    salvus_opt.get_batch_size()             (later calls)    *)
(*   blocked, use_these   salvus_opt.find_blocked_events() (later calls)    *)
(*   control_group prev_iter_info["new_control_group"]     (later calls)    *)
(*   rand          salvus_opt.get_random_event(...)        (later calls)    *)
(* A call yields a set of possible outcomes: get_subset and the order of a  *)
(* list built from a set are not fixed by the inputs.                       *)

\* lines 78-91: the first batch
get_minibatch_first(in) ==
    get_subset(in.num_events, in.events, {})

\* lines 119-126: sample the remaining slots and join them to the batch
get_minibatch_fill(count, batch, avail, existing) ==
    IF count.t = "error" THEN {Raised(count.e)}
    ELSE IF batch.t = "error" THEN {Raised(batch.e)}
    ELSE IF avail.t = "error" THEN {Raised(avail.e)}
    ELSE IF existing.t = "error" THEN {Raised(existing.e)}
    ELSE UNION {
        IF add.kind = "error" THEN {add}
        ELSE LET joined == PyAdd(PySetOf(batch), PySetOf(PyList(add.batch)))   \* line 125
             IN  {IF b.t = "error" THEN Raised(b.e) ELSE Returned(b.l) : b \in PyListOfSet(joined)}
        : add \in get_subset(count.i, SortedSeq(avail.s), existing.s) }

\* lines 92-126: a batch of a later iteration
get_minibatch_later(in) ==
    LET blocked_events == PyList(in.blocked)                      \* line 93
        use_these      == PyList(in.use_these)
        count0         == PyInt(in.batch_size)                    \* line 94
        events         == PyList(in.events)                       \* line 95
        existing       == PyList(in.control_group)                \* line 98
        count1         == PySub(count0, existing)                 \* line 99
    IN  IF count1.t = "error" THEN {Raised(count1.e)}
        ELSE IF Len(in.use_these) > 0                             \* line 100
        THEN LET count2 == PySub(count1, PyInt(Len(in.use_these)))            \* 101
                 batch  == PyAdd(use_these, existing)                         \* 102
                 avail  == PySub(PySub(PySetOf(events), PySetOf(blocked_events)),
                                 PySetOf(use_these))                          \* 103-104
                 exist2 == PySetOf(PyAdd(existing, use_these))                \* 105
             IN  get_minibatch_fill(count2, batch, avail, exist2)
        ELSE IF Len(in.blocked) = 0                               \* line 108
        THEN LET batch == PyAdd(PySetOf(existing), PySetOf(PyList(in.rand)))  \* 113
                 avail == PySub(PySetOf(events), PySetOf(blocked_events))     \* 115
             IN  get_minibatch_fill(count1, batch, avail, PySetOf(batch))
        ELSE LET avail == PySub(PySetOf(events), PySetOf(blocked_events))     \* 115
             IN  get_minibatch_fill(count1, existing, avail, PySetOf(existing))

\* lines 68-126
get_minibatch(in) ==
    IF in.first THEN get_minibatch_first(in) ELSE get_minibatch_later(in)

(* ----------------------- the selector's callers ------------------------- *)
Catalog == 1..NumCatalog

\* the values a call reads from its collaborators
SelectorInput(f, ev, q, bl, ut, cg, rd) ==
    [first |-> f, events |-> SortedSeq(ev), num_events |-> q, batch_size |-> q,
     blocked |-> SortedSeq(bl), use_these |-> SortedSeq(ut),
     control_group |-> SortedSeq(cg), rand |-> SortedSeq(rd)]

NoInput == SelectorInput(TRUE, Catalog, 1, {}, {}, {}, {})

\* the inputs a call can meet: the catalog is never empty and holds every
\* event the optimizer names; forced and randomly picked events are not
\* blocked; before the first iteration nothing is blocked, forced or carried
\* over
ValidSelectorInput(in) ==
    /\ Len(in.events) >= 1
    /\ Range(in.blocked) \cup Range(in.use_these) \cup Range(in.control_group)
          \cup Range(in.rand) \subseteq Range(in.events)
    /\ in.first => (in.blocked = <<>> /\ in.use_these = <<>>
                    /\ in.control_group = <<>> /\ in.rand = <<>>)
    /\ Range(in.use_these) \cap Range(in.blocked) = {}
    /\ Range(in.rand) \cap Range(in.blocked) = {}
    /\ Len(in.rand) <= 1

SelInit ==
    /\ sel_pc = "idle"
    /\ sel_in = NoInput
    /\ sel_out = NoResult
    /\ sel_out2 = NoResult

\* the controller asks for the batch of the coming iteration
SelCall ==
    /\ sel_pc = "idle"
    /\ \E f \in BOOLEAN, n \in 1..NumCatalog, q \in 1..MaxQuota :
       \E bl \in SUBSET (1..n), cg \in SUBSET (1..n) :
       \E ut \in SUBSET ((1..n) \ bl), rd \in {{}} \cup {{e} : e \in (1..n) \ bl} :
         LET in == SelectorInput(f, 1..n, q, bl, ut, cg, rd)
         IN  /\ ValidSelectorInput(in)
             /\ sel_in' = in
             /\ \E r \in get_minibatch(in) : sel_out' = r
    /\ sel_pc' = "done"
    /\ sel_out2' = NoResult
    /\ UNCHANGED <<d_vars, x_vars>>

\* the same call again, on the same inputs
SelRepeat ==
    /\ sel_pc = "done"
    /\ \E r \in get_minibatch(sel_in) : sel_out2' = r
    /\ sel_pc' = "repeated"
    /\ UNCHANGED <<sel_in, sel_out, d_vars, x_vars>>

\* the caller is done with the batch
SelForget ==
    /\ sel_pc \in {"done", "repeated"}
    /\ sel_pc' = "idle"
    /\ sel_in' = NoInput
    /\ sel_out' = NoResult
    /\ sel_out2' = NoResult
    /\ UNCHANGED <<d_vars, x_vars>>


(* =================== simulation dispatch coordinator ==================== *)

Procs  == {1, 2}
Events == 1..NumEvents
Kinds  == {"forward", "adjoint"}
Keys   == Events \X (0..MaxIter) \X Kinds

\* a job's states, in the order it passes through them
Rank(st) ==
    CASE st = "NotSubmitted" -> 0
      [] st = "Submitted"    -> 1
      [] st = "Running"      -> 2
      [] st = "Retrievable"  -> 3
      [] st = "Retrieved"    -> 4
      [] st = "Failed"       -> 4

Terminal(st) == st \in {"Retrieved", "Failed"}

JobKey(j) == <<j.event, j.iter, j.kind>>

\* the status the table shows for a key
StatusOf(js, tb, key) ==
    IF tb[key] = 0 THEN "NotSubmitted" ELSE js[tb[key]].status

\* faulty variants of LiveJob: the lookup finds nothing; the lookup overlooks a job
\* that has been submitted but has not started
LiveJobNotLookedUp(js, tb, key) == 0

LiveJobStartedOnly(js, tb, key) ==
    IF tb[key] # 0 /\ js[tb[key]].status \in {"Running", "Retrievable"} THEN tb[key] ELSE 0

\* the non-terminal job the table knows for a key, 0 if there is none
LiveJob(js, tb, key) ==
    IF tb[key] # 0 /\ ~Terminal(js[tb[key]].status) THEN tb[key] ELSE 0

\* faulty variant of Submit: a resubmission resets the key's recorded job instead of
\* creating a new one
SubmitOverwrite(js, tb, key, p) ==
    IF tb[key] # 0
    THEN [jobs |-> [js EXCEPT ![tb[key]].status = "Submitted"], table |-> tb]
    ELSE [jobs |-> Append(js, [event |-> key[1], iter |-> key[2], kind |-> key[3],
                               status |-> "Submitted", by |-> p]),
          table |-> [tb EXCEPT ![key] = Len(js) + 1]]

\* submit(job_spec) -> job_id at the remote site, recorded in the table
Submit(js, tb, key, p) ==
    LET job == [event |-> key[1], iter |-> key[2], kind |-> key[3],
                status |-> "Submitted", by |-> p]
    IN  [jobs |-> Append(js, job), table |-> [tb EXCEPT ![key] = Len(js) + 1]]

\* dispatch of one key in one piece: reuse the live job or submit one
RECURSIVE DispatchAll(_, _, _, _, _, _)
DispatchAll(js, tb, es, it, kind, p) ==
    IF es = {} THEN [jobs |-> js, table |-> tb]
    ELSE LET e   == CHOOSE x \in es : \A y \in es : x <= y
             key == <<e, it, kind>>
             nx  == IF LiveJob(js, tb, key) # 0 \/ Len(js) >= MaxJobs
                    THEN [jobs |-> js, table |-> tb]
                    ELSE Submit(js, tb, key, p)
         IN  DispatchAll(nx.jobs, nx.table, es \ {e}, it, kind, p)

\* comm.project.events_in_iteration
events_in_iteration == Events

\* comm.project.validation_dataset: fixed events of the catalog
validation_dataset == {NumEvents}

\* the events the helper of a task is made for (optimizer.py 273-275, 304-306,
\* 334-336, 352-354)
helper_events(t) ==
    IF t = "compute_validation_misfit" THEN validation_dataset ELSE events_in_iteration

\* the kind of job a task deals with
KindOf(t) == IF t = "compute_gradient" THEN "adjoint" ELSE "forward"

\* assert_all_simulations_dispatched: every requested job has been submitted
assert_all_dispatched(js, tb, es, it, kind) ==
    IF \A e \in es : StatusOf(js, tb, <<e, it, kind>>) # "NotSubmitted"
    THEN "ok" ELSE "DispatchIncomplete"

\* assert_all_simulations_retrieved: every requested job exists and is terminal
assert_all_retrieved(js, tb, es, it, kind) ==
    IF \A e \in es : Terminal(StatusOf(js, tb, <<e, it, kind>>))
    THEN "ok" ELSE "RetrievalIncomplete"

DInit ==
    /\ multi_mesh \in BOOLEAN
    /\ iteration = 0
    /\ mesh = [e \in Events |-> "none"]
    /\ jobs = <<>>
    /\ table = [k \in Keys |-> 0]
    /\ pc = [p \in Procs |-> "idle"]
    /\ task = [p \in Procs |-> "none"]
    /\ todo = [p \in Procs |-> {}]
    /\ cur = [p \in Procs |-> 0]
    /\ seen = [p \in Procs |-> 0]
    /\ ret = [p \in Procs |-> 0]
    /\ timer = [p \in Procs |-> 0]
    /\ adjoint = [p \in Procs |-> FALSE]
    /\ outcome = [p \in Procs |-> "none"]
    /\ raced = FALSE

(* ---- Optimize.run_forward / compute_gradient: dispatch, then the gate --- *)
BeginDispatch(p, t) ==
    /\ pc[p] = "idle"
    /\ Len(jobs) + NumEvents <= MaxJobs
    /\ pc' = [pc EXCEPT ![p] = "dispatch"]
    /\ task' = [task EXCEPT ![p] = t]
    /\ todo' = [todo EXCEPT ![p] = events_in_iteration]
    /\ ret' = [ret EXCEPT ![p] = 0]
    /\ outcome' = [outcome EXCEPT ![p] = "none"]
    /\ UNCHANGED <<x_vars, sel_vars, nprocs, raced, multi_mesh, iteration, mesh, jobs, table, cur, seen,
                   timer, adjoint>>

\* optimizer.py 273-276
run_forward(p) == BeginDispatch(p, "run_forward")

\* optimizer.py 352-355
compute_gradient(p) == BeginDispatch(p, "compute_gradient")

\* faulty variant of DispatchLookup: the state of the mesh is not looked at
DispatchLookup_ignoring_mesh(p) ==
    /\ pc[p] = "dispatch"
    /\ todo[p] # {}
    /\ LET e    == CHOOSE x \in todo[p] : \A y \in todo[p] : x <= y
           kind == KindOf(task[p])
           key  == <<e, iteration, kind>>
       IN  IF LiveJob(jobs, table, key) # 0
           THEN /\ ret' = [ret EXCEPT ![p] = LiveJob(jobs, table, key)]
                /\ todo' = [todo EXCEPT ![p] = @ \ {e}]
                /\ UNCHANGED <<pc, cur, seen, mesh>>
           ELSE /\ pc' = [pc EXCEPT ![p] = "submit"]
                /\ cur' = [cur EXCEPT ![p] = e]
                /\ seen' = [seen EXCEPT ![p] = Len(jobs)]
                /\ UNCHANGED <<todo, ret, mesh>>
    /\ UNCHANGED <<x_vars, sel_vars, nprocs, raced, multi_mesh, iteration, jobs, table, task,
                   timer, adjoint, outcome>>

\* the helper's loop, one event: look the job up in the table
DispatchLookup(p) ==
    /\ pc[p] = "dispatch"
    /\ todo[p] # {}
    /\ LET e    == CHOOSE x \in todo[p] : \A y \in todo[p] : x <= y
           kind == KindOf(task[p])
           key  == <<e, iteration, kind>>
       IN  IF kind = "forward" /\ multi_mesh /\ mesh[e] # "ready"
           THEN \* the mesh is not ready: ask for it, submit nothing
                /\ mesh' = [mesh EXCEPT ![e] = "requested"]
                /\ todo' = [todo EXCEPT ![p] = @ \ {e}]
                /\ ret' = [ret EXCEPT ![p] = 0]
                /\ UNCHANGED <<pc, cur, seen>>
           ELSE IF LiveJob(jobs, table, key) # 0
           THEN \* a live job is on record: reuse it
                /\ ret' = [ret EXCEPT ![p] = LiveJob(jobs, table, key)]
                /\ todo' = [todo EXCEPT ![p] = @ \ {e}]
                /\ UNCHANGED <<pc, cur, seen, mesh>>
           ELSE \* nothing live on record: go and submit
                /\ pc' = [pc EXCEPT ![p] = "submit"]
                /\ cur' = [cur EXCEPT ![p] = e]
                /\ seen' = [seen EXCEPT ![p] = Len(jobs)]
                /\ UNCHANGED <<todo, ret, mesh>>
    /\ UNCHANGED <<x_vars, sel_vars, nprocs, raced, multi_mesh, iteration, jobs, table, task, timer,
                   adjoint, outcome>>

\* the helper's loop, one event: submit and record the job
DispatchSubmit(p) ==
    /\ pc[p] = "submit"
    /\ Len(jobs) < MaxJobs
    /\ LET key == <<cur[p], iteration, KindOf(task[p])>>
           nx  == Submit(jobs, table, key, p)
       IN  /\ jobs' = nx.jobs
           /\ table' = nx.table
           /\ ret' = [ret EXCEPT ![p] = Len(nx.jobs)]
    /\ todo' = [todo EXCEPT ![p] = @ \ {cur[p]}]
    /\ cur' = [cur EXCEPT ![p] = 0]
    /\ seen' = [seen EXCEPT ![p] = 0]
    /\ pc' = [pc EXCEPT ![p] = "dispatch"]
    /\ raced' = (raced \/ seen[p] # Len(jobs))
    /\ UNCHANGED <<x_vars, sel_vars, nprocs, multi_mesh, iteration, mesh, task, timer, adjoint, outcome>>

\* the value the gate after a dispatch ends the task with
dispatch_gate(p) ==
    assert_all_dispatched(jobs, table, helper_events(task[p]), iteration, KindOf(task[p]))

EndDispatch(p, t) ==
    /\ pc[p] = "dispatch"
    /\ task[p] = t
    /\ todo[p] = {}
    /\ outcome' = [outcome EXCEPT ![p] = dispatch_gate(p)]
    /\ pc' = [pc EXCEPT ![p] = "idle"]
    /\ ret' = [ret EXCEPT ![p] = 0]
    /\ UNCHANGED <<x_vars, sel_vars, nprocs, raced, multi_mesh, iteration, mesh, jobs, table, task, todo,
                   cur, seen, timer, adjoint>>

\* faulty variant of run_forward_gate: the result of the check is not asserted
run_forward_gate_unchecked(p) ==
    /\ pc[p] = "dispatch"
    /\ task[p] = "run_forward"
    /\ todo[p] = {}
    /\ outcome' = [outcome EXCEPT ![p] = "ok"]
    /\ pc' = [pc EXCEPT ![p] = "idle"]
    /\ ret' = [ret EXCEPT ![p] = 0]
    /\ UNCHANGED <<x_vars, sel_vars, nprocs, raced, multi_mesh, iteration, mesh, jobs, table, task,
                   todo, cur, seen, timer, adjoint>>

\* optimizer.py 277
run_forward_gate(p) == EndDispatch(p, "run_forward")

\* optimizer.py 356
compute_gradient_gate(p) == EndDispatch(p, "compute_gradient")

(* ---- Optimize.compute_misfit: retrieve, then the gate -------------------- *)
\* faulty variant of compute_misfit: the retrieval is skipped, the gate follows at once
compute_misfit_without_retrieve(p) ==
    /\ pc[p] = "idle"
    /\ pc' = [pc EXCEPT ![p] = "retrieved"]
    /\ task' = [task EXCEPT ![p] = "compute_misfit"]
    /\ timer' = [timer EXCEPT ![p] = PollTimeout]
    /\ outcome' = [outcome EXCEPT ![p] = "none"]
    /\ UNCHANGED <<x_vars, sel_vars, nprocs, raced, multi_mesh, iteration, mesh, jobs, table, todo, cur,
                   seen, ret, adjoint>>

\* optimizer.py 334-341
compute_misfit(p) ==
    /\ pc[p] = "idle"
    /\ \E adj \in BOOLEAN :
         /\ adj => Len(jobs) + NumEvents <= MaxJobs
         /\ adjoint' = [adjoint EXCEPT ![p] = adj]
    /\ pc' = [pc EXCEPT ![p] = "retrieve"]
    /\ task' = [task EXCEPT ![p] = "compute_misfit"]
    /\ timer' = [timer EXCEPT ![p] = PollTimeout]
    /\ outcome' = [outcome EXCEPT ![p] = "none"]
    /\ UNCHANGED <<x_vars, sel_vars, nprocs, raced, multi_mesh, iteration, mesh, jobs, table, todo, cur,
                   seen, ret>>

\* the jobs a poll can fetch: requested, on record and Retrievable
Fetchable(js, tb, es, it) ==
    {e \in es : StatusOf(js, tb, <<e, it, "forward">>) = "Retrievable"}

\* whether the wait loop of retrieve ends after a poll
retrieve_returns(js, tb, es, it, left) ==
    \/ \A e \in es : Terminal(StatusOf(js, tb, <<e, it, "forward">>))
    \/ left = 0

\* one poll of the blocking wait loop
RetrievePoll(p) ==
    /\ pc[p] = "retrieve"
    /\ LET got  == Fetchable(jobs, table, helper_events(task[p]), iteration)
           ids  == {table[<<e, iteration, "forward">>] : e \in got}
           js1  == [j \in 1..Len(jobs) |->
                       IF j \in ids THEN [jobs[j] EXCEPT !.status = "Retrieved"]
                       ELSE jobs[j]]
           nx   == IF adjoint[p]
                   THEN DispatchAll(js1, table, got, iteration, "adjoint", p)
                   ELSE [jobs |-> js1, table |-> table]
       IN  /\ jobs' = nx.jobs
           /\ table' = nx.table
           /\ IF retrieve_returns(nx.jobs, nx.table, helper_events(task[p]), iteration, timer[p])
              THEN pc' = [pc EXCEPT ![p] = "retrieved"] /\ timer' = timer
              ELSE pc' = pc /\ timer' = [timer EXCEPT ![p] = @ - 1]
    /\ UNCHANGED <<x_vars, sel_vars, nprocs, raced, multi_mesh, iteration, mesh, task, todo, cur, seen,
                   ret, adjoint, outcome>>

\* the value the gate after a retrieval ends the task with
retrieve_gate(p) ==
    assert_all_retrieved(jobs, table, events_in_iteration, iteration, "forward")

\* faulty variant of compute_misfit_gate: the result of the check is not asserted
compute_misfit_gate_unchecked(p) ==
    /\ pc[p] = "retrieved"
    /\ outcome' = [outcome EXCEPT ![p] = "ok"]
    /\ pc' = [pc EXCEPT ![p] = "idle"]
    /\ timer' = [timer EXCEPT ![p] = 0]
    /\ adjoint' = [adjoint EXCEPT ![p] = FALSE]
    /\ UNCHANGED <<x_vars, sel_vars, nprocs, raced, multi_mesh, iteration, mesh, jobs, table, task, todo,
                   cur, seen, ret>>

\* optimizer.py 342
compute_misfit_gate(p) ==
    /\ pc[p] = "retrieved"
    /\ outcome' = [outcome EXCEPT ![p] = retrieve_gate(p)]
    /\ pc' = [pc EXCEPT ![p] = "idle"]
    /\ timer' = [timer EXCEPT ![p] = 0]
    /\ adjoint' = [adjoint EXCEPT ![p] = FALSE]
    /\ UNCHANGED <<x_vars, sel_vars, nprocs, raced, multi_mesh, iteration, mesh, jobs, table, task, todo,
                   cur, seen, ret>>

(* ---- the remote execution collaborator ---------------------------------- *)
SetStatus(j, st) == jobs' = [jobs EXCEPT ![j].status = st]

RemoteFrame ==
    UNCHANGED <<x_vars, sel_vars, nprocs, raced, multi_mesh, iteration, mesh, table, pc, task, todo, cur,
                seen, ret, timer, adjoint, outcome>>

RemoteStart ==
    \E j \in 1..Len(jobs) :
        /\ jobs[j].status = "Submitted"
        /\ SetStatus(j, "Running")
        /\ RemoteFrame

RemoteFinish ==
    \E j \in 1..Len(jobs) :
        /\ jobs[j].status = "Running"
        /\ SetStatus(j, "Retrievable")
        /\ RemoteFrame

RemoteFail ==
    \E j \in 1..Len(jobs) :
        /\ jobs[j].status \in {"Submitted", "Running"}
        /\ SetStatus(j, "Failed")
        /\ RemoteFrame

\* the interpolation job of an event ends: its mesh is ready
MeshReady ==
    \E e \in Events :
        /\ mesh[e] = "requested"
        /\ mesh' = [mesh EXCEPT ![e] = "ready"]
        /\ UNCHANGED <<x_vars, sel_vars, nprocs, raced, multi_mesh, iteration, jobs, table, pc, task, todo,
                       cur, seen, ret, timer, adjoint, outcome>>

\* the controller moves on to the next iteration
NextIteration ==
    /\ \A p \in Procs : pc[p] = "idle"
    /\ iteration < MaxIter
    /\ iteration' = iteration + 1
    /\ mesh' = [e \in Events |-> "none"]
    /\ outcome' = [p \in Procs |-> "none"]
    /\ UNCHANGED <<x_vars, sel_vars, nprocs, raced, multi_mesh, jobs, table, pc, task, todo, cur, seen,
                   ret, timer, adjoint>>

(* ======================= the artifact store ============================== *)
(* An artifact is an h5 file with the tensor MODEL/data[element, parameter, *)
(* point] and the attribute DIMENSION_LABELS.  get_h5_data / set_h5_data    *)
(* index the middle axis only, so a tensor is kept as the sequence of its   *)
(* slices [:, k, :], each slice standing for its whole content.             *)
ParamNames == <<"VSV", "VSH", "VPV", "VPH", "RHO", "QKAPPA">>

\* the parameters an artifact stores, in storage order
StoredLabels == [k \in 1..NumLabels |-> ParamNames[k]]

\* the names a configuration may list: the stored ones and one that is not stored
KnownNames == {ParamNames[k] : k \in 1..NumLabels + 1}

SliceValues == 0..MaxVal

FileNames == {"model_00000.h5", "model_00001.h5"}

\* DIMENSION_LABELS[1] as the mesh writer stores it: "[ VSV | VSH | VPV ]"
RECURSIVE JoinLabels(_)
JoinLabels(names) ==
    IF Len(names) = 0 THEN <<>>
    ELSE IF Len(names) = 1 THEN <<" ", names[1], " ">>
    ELSE <<" ", names[1], " ", "|">> \o JoinLabels(Tail(names))

DimensionLabels(names) == <<"[">> \o JoinLabels(names) \o <<"]">>

\* Python: s[1:-1]
StripEnds(s) == SubSeq(s, 2, Len(s) - 1)

\* Python: s.replace(" ", "")
RemoveSpaces(s) == SelectSeq(s, LAMBDA c : c # " ")

\* Python: s.split(sep)
RECURSIVE Split(_, _)
Split(s, sep) ==
    IF \A k \in 1..Len(s) : s[k] # sep THEN <<s>>
    ELSE LET k == CHOOSE i \in 1..Len(s) : s[i] = sep /\ \A j \in 1..(i - 1) : s[j] # sep
         IN  <<SubSeq(s, 1, k - 1)>> \o Split(SubSeq(s, k + 1, Len(s)), sep)

\* Python: list.index(x), counted from 0; -1 stands for ValueError
ListIndex(q, x) ==
    IF \E k \in 1..Len(q) : q[k] = x
    THEN (CHOOSE k \in 1..Len(q) : q[k] = x /\ \A j \in 1..(k - 1) : q[j] # x) - 1
    ELSE -1

NoArtifact == [exists |-> FALSE, labels |-> <<>>, data |-> <<>>]

Artifact(names, data) ==
    [exists |-> TRUE, labels |-> DimensionLabels(names), data |-> data]

\* optimizer.py 370-384
get_parameter_indices(store, filename, parameters) ==
    IF ~store[filename].exists THEN Raised("OSError")
    ELSE LET dim_labels == Split(RemoveSpaces(StripEnds(store[filename].labels)), "|")
             indices    == [i \in 1..Len(parameters) |->
                               ListIndex(dim_labels, <<parameters[i]>>)]
         IN  IF \E i \in 1..Len(indices) : indices[i] = -1
             THEN Raised("ValueError")
             ELSE Returned(indices)

\* optimizer.py 386-394
get_h5_data(store, filename, parameters) ==
    LET ix == get_parameter_indices(store, filename, parameters)
    IN  IF ix.kind = "error" THEN ix
        ELSE LET data    == store[filename].data
                 indices == ix.batch
             IN  Returned([i \in 1..Len(indices) |-> data[indices[i] + 1]])

\* data_copy[:, indices[i], :] = data[:, i, :] for i = from, from + 1, ...
RECURSIVE AssignSlices(_, _, _, _)
AssignSlices(data_copy, indices, data, from) ==
    IF from > Len(indices) THEN data_copy
    ELSE AssignSlices([data_copy EXCEPT ![indices[from] + 1] = data[from]],
                      indices, data, from + 1)

\* Python: list.sort()
RECURSIVE SortedList(_)
SortedList(q) ==
    IF Len(q) = 0 THEN <<>>
    ELSE LET k == CHOOSE i \in 1..Len(q) : \A j \in 1..Len(q) : q[i] <= q[j]
         IN  <<q[k]>> \o SortedList(SubSeq(q, 1, k - 1) \o SubSeq(q, k + 1, Len(q)))

\* h5py takes a list of indices only in strictly increasing order
IncreasingOrder(q) == \A k \in 1..(Len(q) - 1) : q[k] < q[k + 1]

\* dat[:, indices, :] = data_copy[:, indices, :]
WriteSlices(dat, indices, data_copy) ==
    [k \in 1..Len(dat) |->
        IF \E i \in 1..Len(indices) : indices[i] + 1 = k THEN data_copy[k] ELSE dat[k]]

\* the result of a write: the artifacts afterwards and what the call produced
WriteResult(store, out) == [store |-> store, out |-> out]

\* faulty variant of set_h5_data: the indices are sorted before the slices are
\* assigned, so the data no longer goes to the parameter it came for
set_h5_data_sorted_first(store, filename, parameters, data) ==
    IF ~store[filename].exists THEN WriteResult(store, Raised("Exception"))
    ELSE LET ix == get_parameter_indices(store, filename, parameters)
         IN  IF ix.kind = "error" THEN WriteResult(store, ix)
             ELSE LET indices   == SortedList(ix.batch)
                      dat       == store[filename].data
                      data_copy == AssignSlices(dat, indices, data, 1)
                  IN  IF ~IncreasingOrder(indices)
                      THEN WriteResult(store, Raised("TypeError"))
                      ELSE WriteResult(
                             [store EXCEPT ![filename].data =
                                 WriteSlices(dat, indices, data_copy)],
                             Returned(<<>>))

\* faulty variant of set_h5_data: the copy in memory starts empty and the whole
\* tensor is written back
set_h5_data_clobbering(store, filename, parameters, data) ==
    IF ~store[filename].exists THEN WriteResult(store, Raised("Exception"))
    ELSE LET ix == get_parameter_indices(store, filename, parameters)
         IN  IF ix.kind = "error" THEN WriteResult(store, ix)
             ELSE LET indices   == ix.batch
                      dat       == store[filename].data
                      zeros     == [k \in 1..Len(dat) |-> 0]
                      data_copy == AssignSlices(zeros, indices, data, 1)
                  IN  IF ~IncreasingOrder(SortedList(indices))
                      THEN WriteResult(store, Raised("TypeError"))
                      ELSE WriteResult([store EXCEPT ![filename].data = data_copy],
                                       Returned(<<>>))

\* faulty variant of set_h5_data: a missing file is created (mode "a") instead of
\* refused
set_h5_data_creating(store, filename, parameters, data) ==
    LET zeros  == [k \in 1..NumLabels |-> 0]
        store1 == IF store[filename].exists THEN store
                  ELSE [store EXCEPT ![filename] = Artifact(StoredLabels, zeros)]
        ix     == get_parameter_indices(store1, filename, parameters)
    IN  IF ix.kind = "error" THEN WriteResult(store1, ix)
        ELSE LET indices   == ix.batch
                 dat       == store1[filename].data
                 data_copy == AssignSlices(dat, indices, data, 1)
                 sorted    == SortedList(indices)
             IN  IF ~IncreasingOrder(sorted)
                 THEN WriteResult(store1, Raised("TypeError"))
                 ELSE WriteResult(
                        [store1 EXCEPT ![filename].data =
                            WriteSlices(dat, sorted, data_copy)],
                        Returned(<<>>))

\* optimizer.py 396-413
set_h5_data(store, filename, parameters, data) ==
    IF ~store[filename].exists THEN WriteResult(store, Raised("Exception"))
    ELSE LET ix == get_parameter_indices(store, filename, parameters)
         IN  IF ix.kind = "error" THEN WriteResult(store, ix)
             ELSE LET indices   == ix.batch
                      dat       == store[filename].data
                      data_copy == AssignSlices(dat, indices, data, 1)
                      sorted    == SortedList(indices)
                  IN  IF ~IncreasingOrder(sorted)
                      THEN WriteResult(store, Raised("TypeError"))
                      ELSE WriteResult(
                             [store EXCEPT ![filename].data =
                                 WriteSlices(dat, sorted, data_copy)],
                             Returned(<<>>))

NoWrite == [file |-> "", parameters |-> <<>>, data |-> <<>>]

\* the project after _init_directories: the artifact of iteration 0 exists
ArtInit ==
    /\ art_store = [f \in FileNames |->
                       IF f = "model_00000.h5"
                       THEN Artifact(StoredLabels, [k \in 1..NumLabels |-> k % (MaxVal + 1)])
                       ELSE NoArtifact]
    /\ art_pc = "idle"
    /\ art_in = NoWrite
    /\ art_pre = art_store
    /\ art_out = NoResult
    /\ art_read = NoResult

\* a caller writes data for self.parameters into a file
ArtWrite ==
    /\ art_pc = "idle"
    /\ \E f \in FileNames, n \in 1..MaxParams :
         \E parameters \in [1..n -> KnownNames], data \in [1..n -> SliceValues] :
            LET r == set_h5_data(art_store, f, parameters, data)
            IN  /\ art_store' = r.store
                /\ art_out' = r.out
                /\ art_in' = [file |-> f, parameters |-> parameters, data |-> data]
    /\ art_pre' = art_store
    /\ art_pc' = "written"
    /\ UNCHANGED <<art_read, sel_vars, d_vars, s_vars, p_vars, c_vars, w_vars, u_vars>>

\* the caller reads the same file back
ArtRead ==
    /\ art_pc = "written"
    /\ art_read' = get_h5_data(art_store, art_in.file, art_in.parameters)
    /\ art_pc' = "read"
    /\ UNCHANGED <<art_store, art_in, art_pre, art_out, sel_vars, d_vars, s_vars, p_vars, c_vars, w_vars, u_vars>>

ArtDone ==
    /\ art_pc = "read"
    /\ art_pc' = "idle"
    /\ art_in' = NoWrite
    /\ art_pre' = art_store
    /\ art_out' = NoResult
    /\ art_read' = NoResult
    /\ UNCHANGED <<art_store, sel_vars, d_vars, s_vars, p_vars, c_vars, w_vars, u_vars>>

\* the update step puts the next model on disk as a copy of an existing one
ArtifactAppears ==
    /\ art_pc = "idle"
    /\ \E f \in FileNames, g \in FileNames :
         /\ ~art_store[f].exists
         /\ art_store[g].exists
         /\ art_store' = [art_store EXCEPT ![f] = art_store[g]]
         /\ art_pre' = art_store'
    /\ UNCHANGED <<art_pc, art_in, art_out, art_read, sel_vars, d_vars, s_vars, p_vars, c_vars, w_vars, u_vars>>

(* ======================= iteration numbering ============================= *)
(* File names are parsed character by character, so a path is the sequence  *)
(* of its characters.                                                       *)
DigitChars == <<"0", "1", "2", "3", "4", "5", "6", "7", "8", "9">>

IsDigit(c) == \E d \in 1..Len(DigitChars) : DigitChars[d] = c

DigitValue(c) == (CHOOSE d \in 1..Len(DigitChars) : DigitChars[d] = c) - 1

\* str(n)
RECURSIVE Decimal(_)
Decimal(n) ==
    IF n < Len(DigitChars) THEN <<DigitChars[n + 1]>>
    ELSE Decimal(n \div Len(DigitChars)) \o <<DigitChars[(n % Len(DigitChars)) + 1]>>

\* f"{n:05d}": zero-padded to the width of the pattern
ZeroPadded(n, width) ==
    LET s == Decimal(n)
    IN  IF Len(s) >= width THEN s ELSE [k \in 1..(width - Len(s)) |-> "0"] \o s

\* the width 05 of the naming pattern
SuffixWidth == 5

\* f"{self.model_dir}/model_{n:05d}.h5"
ModelFile(dir, n) ==
    dir \o <<"/", "m", "o", "d", "e", "l", "_">> \o ZeroPadded(n, SuffixWidth)
        \o <<".", "h", "5">>

\* int(s) of a string of digits; -1 stands for ValueError
RECURSIVE IntOf(_)
IntOf(s) ==
    IF Len(s) = 0 \/ \E k \in 1..Len(s) : ~IsDigit(s[k]) THEN -1
    ELSE IF Len(s) = 1 THEN DigitValue(s[1])
    ELSE IntOf(SubSeq(s, 1, Len(s) - 1)) * Len(DigitChars) + DigitValue(s[Len(s)])

\* int(model.split(".")[0].split("_")[-1])
ParsedNumber(model) ==
    LET stem   == Split(model, ".")[1]
        pieces == Split(stem, "_")
    IN  IntOf(pieces[Len(pieces)])

\* optimizer.py 182-189, as the set of numbers in the list; {-1} stands for the
\* ValueError of int()
find_iteration_numbers(dir, present) ==
    IF present = {} THEN {0}
    ELSE LET parsed == {ParsedNumber(ModelFile(dir, n)) : n \in present}
         IN  IF -1 \in parsed THEN {-1} ELSE parsed

\* optimizer.py 169-172
iteration_number(dir, present) ==
    LET numbers == find_iteration_numbers(dir, present)
    IN  IF numbers = {-1} THEN PyErr("ValueError")
        ELSE PyInt(CHOOSE m \in numbers : \A k \in numbers : k <= m)

\* directories a project may live in: a plain one, one with a dot in a directory
\* name, one with an underscore and a dot
PlainDir == <<"/", "i", "n", "v", "/", "M">>
DottedDir == <<"/", "i", ".", "v", "/", "M">>
VersionedDir == <<"/", "i", "_", "3", ".", "0", "/", "M">>
ModelDirs == {PlainDir, DottedDir, VersionedDir}

(* ======================= start-up: Optimize.__init__ ===================== *)
\* the latest start that initialized the directories: the models it found, and
\* whether a later start went up on what was there
NotInitialized == [done |-> FALSE, found |-> {}, kept |-> FALSE]
InitializedOn(found) == [done |-> TRUE, found |-> found, kept |-> FALSE]

NoConfig == [exists |-> FALSE, initial_model |-> ""]

\* optimizer.py 131-142: the configuration _write_initial_config writes
DefaultConfig == [exists |-> TRUE, initial_model |-> ""]

InitialModels == {"", "model.h5"}

StartInit ==
    /\ model_dir = <<>>
    /\ models = {}
    /\ it_num = NoResult
    /\ config = NoConfig
    /\ run = "off"
    /\ dirs_init = FALSE
    /\ first_task = FALSE
    /\ init_found = NotInitialized

\* the project is created somewhere: comm.project.paths["inversion_root"]
ChooseProject ==
    /\ model_dir = <<>>
    /\ model_dir' \in ModelDirs
    /\ UNCHANGED <<models, it_num, config, run, dirs_init, first_task, init_found>>
    /\ UNCHANGED <<sel_vars, d_vars, a_vars, p_vars, c_vars, w_vars, u_vars>>

\* faulty variant of Startup: the test of an empty initial_model is left out
Startup_without_model_check ==
    /\ model_dir # <<>>
    /\ run # "up"
    /\ IF ~config.exists
       THEN /\ config' = DefaultConfig
            /\ run' = "halted"
            /\ UNCHANGED <<models, dirs_init, first_task, init_found>>
       ELSE IF iteration_number(model_dir, models).t = "error"
       THEN /\ run' = "failed"
            /\ UNCHANGED <<config, models, dirs_init, first_task, init_found>>
       ELSE IF 0 \notin models
       THEN /\ models' = models \cup {0}
            /\ dirs_init' = TRUE
            /\ init_found' = InitializedOn(models)
            /\ first_task' = TRUE
            /\ run' = "up"
            /\ UNCHANGED config
       ELSE /\ run' = "up"
            /\ init_found' = [init_found EXCEPT !.kept = TRUE]
            /\ UNCHANGED <<config, models, dirs_init, first_task>>
    /\ it_num' = NoResult
    /\ UNCHANGED model_dir
    /\ UNCHANGED <<sel_vars, d_vars, a_vars, p_vars, c_vars, w_vars, u_vars>>

\* faulty variant of Startup: every start with an initial model initializes
Startup_always_initializing ==
    /\ model_dir # <<>>
    /\ run # "up"
    /\ IF ~config.exists
       THEN /\ config' = DefaultConfig
            /\ run' = "halted"
            /\ UNCHANGED <<models, dirs_init, first_task, init_found>>
       ELSE IF config.initial_model = ""
       THEN /\ run' = "halted"
            /\ UNCHANGED <<config, models, dirs_init, first_task, init_found>>
       ELSE IF iteration_number(model_dir, models).t = "error"
       THEN /\ run' = "failed"
            /\ UNCHANGED <<config, models, dirs_init, first_task, init_found>>
       ELSE /\ models' = models \cup {0}
            /\ dirs_init' = TRUE
            /\ init_found' = InitializedOn(models)
            /\ first_task' = TRUE
            /\ run' = "up"
            /\ UNCHANGED config
    /\ it_num' = NoResult
    /\ UNCHANGED model_dir
    /\ UNCHANGED <<sel_vars, d_vars, a_vars, p_vars, c_vars, w_vars, u_vars>>

\* optimizer.py 37-93: a controller process is started on the project
Startup ==
    /\ model_dir # <<>>
    /\ run # "up"
    /\ IF ~config.exists
       THEN \* 64-71: write the default configuration and exit
            /\ config' = DefaultConfig
            /\ run' = "halted"
            /\ UNCHANGED <<models, dirs_init, first_task, init_found>>
       ELSE IF config.initial_model = ""
       THEN \* 74-80: exit
            /\ run' = "halted"
            /\ UNCHANGED <<config, models, dirs_init, first_task, init_found>>
       ELSE IF iteration_number(model_dir, models).t = "error"
       THEN \* 83: self.model_path evaluates iteration_number
            /\ run' = "failed"
            /\ UNCHANGED <<config, models, dirs_init, first_task, init_found>>
       ELSE IF 0 \notin models
       THEN \* 83-91: _init_directories puts model 0 in place, _issue_first_task
            /\ models' = models \cup {0}
            /\ dirs_init' = TRUE
            /\ init_found' = InitializedOn(models)
            /\ first_task' = TRUE
            /\ run' = "up"
            /\ UNCHANGED config
       ELSE /\ run' = "up"
            /\ init_found' = [init_found EXCEPT !.kept = TRUE]
            /\ UNCHANGED <<config, models, dirs_init, first_task>>
    /\ it_num' = NoResult
    /\ UNCHANGED model_dir
    /\ UNCHANGED <<sel_vars, d_vars, a_vars, p_vars, c_vars, w_vars, u_vars>>

\* the controller process ends
Shutdown ==
    /\ run = "up"
    /\ run' = "off"
    /\ UNCHANGED <<model_dir, models, it_num, config, dirs_init, first_task, init_found>>
    /\ UNCHANGED <<sel_vars, d_vars, a_vars, p_vars, c_vars, w_vars, u_vars>>

\* the operator edits initial_model in the configuration file between runs
OperatorEditsConfig ==
    /\ config.exists
    /\ run # "up"
    /\ \E m \in InitialModels :
         /\ m # config.initial_model
         /\ config' = [config EXCEPT !.initial_model = m]
    /\ UNCHANGED <<model_dir, models, it_num, run, dirs_init, first_task, init_found>>
    /\ UNCHANGED <<sel_vars, d_vars, a_vars, p_vars, c_vars, w_vars, u_vars>>

\* the update step of a running controller puts the next model on disk
ModelAppears ==
    /\ run = "up"
    /\ models # {}
    /\ LET newest == CHOOSE m \in models : \A k \in models : k <= m
       IN  /\ newest < MaxModel
           /\ models' = models \cup {newest + 1}
    /\ it_num' = NoResult
    /\ UNCHANGED <<model_dir, config, run, dirs_init, first_task, init_found>>
    /\ UNCHANGED <<sel_vars, d_vars, a_vars, p_vars, c_vars, w_vars, u_vars>>

\* an old model is removed from disk
ModelRemoved ==
    /\ run # "up"
    /\ \E n \in models : models' = models \ {n}
    /\ it_num' = NoResult
    /\ UNCHANGED <<model_dir, config, run, dirs_init, first_task, init_found>>
    /\ UNCHANGED <<sel_vars, d_vars, a_vars, p_vars, c_vars, w_vars, u_vars>>

\* optimizer.py 169-172: the property is read
ReadIterationNumber ==
    /\ model_dir # <<>>
    /\ it_num = NoResult
    /\ it_num' = iteration_number(model_dir, models)
    /\ UNCHANGED <<model_dir, models, config, run, dirs_init, first_task, init_found>>
    /\ UNCHANGED <<sel_vars, d_vars, a_vars, p_vars, c_vars, w_vars, u_vars>>

(* ======================= Optimize.prepare_iteration ====================== *)
\* an iteration name: "model_<n>" or "validation_model_<n>", kept as prefix and number
ModelName(n) == <<"model", n>>
ValidationName(n) == <<"validation_model", n>>
NoIteration == <<"", 0>>

ItNames == {ModelName(n) : n \in 0..MaxIter} \cup {ValidationName(0)}

\* "validation" in it_name
IsValidation(it_name) == it_name[1] = "validation_model"

\* a registered iteration: its name and where its events came from
Registered(it_name, events) == [name |-> it_name, events |-> events]

\* lasif_comp.py 36-49
has_iteration(iterations, it_name) == \E it \in iterations : it.name = it_name

\* the events argument: a list the caller passes, or None
EventArgs == {"given", "None"}

\* the project as prepare_iteration sees and changes it
ProjectState ==
    [current_iteration |-> cur_iter, iterations |-> lasif_its, tomls |-> it_tomls,
     moved |-> mesh_moved, uploaded |-> stf_up]

PrepResult(st, out) == [st |-> st, out |-> out]

\* faulty variant of prepare_iteration: the events passed by the caller are not
\* used
prepare_iteration_ignoring_events(st, it_name, move_meshes, events, multi, newer_lasif) ==
    LET st1        == [st EXCEPT !.current_iteration = it_name]
        validation == IsValidation(it_name)
    IN  IF has_iteration(st1.iterations, it_name)
        THEN PrepResult(st1, Raised("InversionsonError: already exists"))
        ELSE LET evs == IF validation THEN "validation_dataset" ELSE "list_events"
                 st2 == [st1 EXCEPT !.iterations = @ \cup {Registered(it_name, evs)},
                                    !.tomls = @ \cup {it_name}]
                 st3 == IF move_meshes THEN [st2 EXCEPT !.moved = @ \cup {it_name}]
                        ELSE st2
             IN  IF multi /\ move_meshes /\ ~newer_lasif
                 THEN PrepResult(st2, Raised("TypeError"))
                 ELSE IF ~newer_lasif
                 THEN PrepResult(st3, Raised("AttributeError"))
                 ELSE PrepResult([st3 EXCEPT !.uploaded = @ \cup {it_name}],
                                 Returned(<<>>))

(* optimizer.py 207-264.  The calls of lines 251 and 264 reach beyond the     *)
(* LasifComponent of the sources at hand, whose move_mesh takes no hpc_cluster *)
(* and which has no upload_stf: there they raise; newer_lasif tells whether    *)
(* the component in use has them.                                              *)
prepare_iteration(st, it_name, move_meshes, events, multi, newer_lasif) ==
    LET st1        == [st EXCEPT !.current_iteration = it_name]
        validation == IsValidation(it_name)
    IN  IF has_iteration(st1.iterations, it_name)
        THEN PrepResult(st1, Raised("InversionsonError: already exists"))
        ELSE LET evs == IF events = "None" /\ ~validation THEN "list_events"
                        ELSE IF events = "None" /\ validation THEN "validation_dataset"
                        ELSE events
                 st2 == [st1 EXCEPT !.iterations = @ \cup {Registered(it_name, evs)},
                                    !.tomls = @ \cup {it_name}]
                 st3 == IF move_meshes THEN [st2 EXCEPT !.moved = @ \cup {it_name}]
                        ELSE st2
             IN  IF multi /\ move_meshes /\ ~newer_lasif
                 THEN PrepResult(st2, Raised("TypeError"))
                 ELSE IF ~newer_lasif
                 THEN PrepResult(st3, Raised("AttributeError"))
                 ELSE PrepResult([st3 EXCEPT !.uploaded = @ \cup {it_name}],
                                 Returned(<<>>))

PrepInit ==
    /\ cur_iter = NoIteration
    /\ lasif_its = {}
    /\ it_tomls = {}
    /\ mesh_moved = {}
    /\ stf_up = {}
    /\ prep_pc = "idle"
    /\ prep_in = NoIteration
    /\ prep_events = "None"
    /\ prep_pre = ProjectState
    /\ prep_out = NoResult

\* a caller prepares an iteration
PrepareIteration ==
    /\ prep_pc = "idle"
    /\ \E it_name \in ItNames, move_meshes \in BOOLEAN, events \in EventArgs,
           newer_lasif \in BOOLEAN :
         LET r == prepare_iteration(ProjectState, it_name, move_meshes, events,
                                    multi_mesh, newer_lasif)
         IN  /\ cur_iter' = r.st.current_iteration
             /\ lasif_its' = r.st.iterations
             /\ it_tomls' = r.st.tomls
             /\ mesh_moved' = r.st.moved
             /\ stf_up' = r.st.uploaded
             /\ prep_out' = r.out
             /\ prep_in' = it_name
             /\ prep_events' = events
    /\ prep_pre' = ProjectState
    /\ prep_pc' = "called"
    /\ UNCHANGED <<sel_vars, d_vars, a_vars, s_vars, c_vars, w_vars, u_vars>>

\* the caller has dealt with the result
PrepareDone ==
    /\ prep_pc = "called"
    /\ prep_pc' = "idle"
    /\ prep_in' = NoIteration
    /\ prep_events' = "None"
    /\ prep_pre' = ProjectState
    /\ prep_out' = NoResult
    /\ UNCHANGED <<cur_iter, lasif_its, it_tomls, mesh_moved, stf_up>>
    /\ UNCHANGED <<sel_vars, d_vars, a_vars, s_vars, c_vars, w_vars, u_vars>>

(* ---- Optimize.compute_validation_misfit ---------------------------------- *)
\* optimizer.py 287-308.  number is what iteration_number reads, remote whether
\* interpolation_mode is "remote"; the move_mesh of lines 299-303 passes
\* validation=True, which the LasifComponent of the sources at hand does not
\* take: there it raises; newer_lasif tells whether the component in use does.
compute_validation_misfit(p) ==
    /\ pc[p] = "idle"
    /\ Len(jobs) + NumEvents <= MaxJobs
    /\ task' = [task EXCEPT ![p] = "compute_validation_misfit"]
    /\ ret' = [ret EXCEPT ![p] = 0]
    /\ \E number \in 0..MaxIter, remote \in BOOLEAN, newer_lasif \in BOOLEAN :
         IF number # 0 /\ remote /\ ~newer_lasif
         THEN /\ outcome' = [outcome EXCEPT ![p] = "TypeError"]
              /\ UNCHANGED <<pc, todo>>
         ELSE IF ~IsValidation(cur_iter)
         THEN \* 307
              /\ outcome' = [outcome EXCEPT ![p] = "AssertionError"]
              /\ UNCHANGED <<pc, todo>>
         ELSE /\ outcome' = [outcome EXCEPT ![p] = "none"]
              /\ pc' = [pc EXCEPT ![p] = "dispatch"]
              /\ todo' = [todo EXCEPT ![p] = validation_dataset]
    /\ UNCHANGED <<x_vars, sel_vars, nprocs, raced, multi_mesh, iteration, mesh, jobs, table, cur,
                   seen, timer, adjoint>>

\* optimizer.py 310-313: the gate after the dispatch, then retrieve with
\* adjoint=False
validation_dispatch_gate(p) ==
    /\ pc[p] = "dispatch"
    /\ task[p] = "compute_validation_misfit"
    /\ todo[p] = {}
    /\ IF dispatch_gate(p) = "ok"
       THEN /\ pc' = [pc EXCEPT ![p] = "retrieve"]
            /\ timer' = [timer EXCEPT ![p] = PollTimeout]
            /\ adjoint' = [adjoint EXCEPT ![p] = FALSE]
            /\ UNCHANGED outcome
       ELSE /\ pc' = [pc EXCEPT ![p] = "idle"]
            /\ outcome' = [outcome EXCEPT ![p] = dispatch_gate(p)]
            /\ UNCHANGED <<timer, adjoint>>
    /\ ret' = [ret EXCEPT ![p] = 0]
    /\ UNCHANGED <<x_vars, sel_vars, nprocs, raced, multi_mesh, iteration, mesh, jobs, table, task,
                   todo, cur, seen>>

\* optimizer.py 314: retrieve has returned, the validation misfit is reported
report_total_validation_misfit(p) ==
    /\ pc[p] = "retrieved"
    /\ task[p] = "compute_validation_misfit"
    /\ outcome' = [outcome EXCEPT ![p] = "reported"]
    /\ pc' = [pc EXCEPT ![p] = "idle"]
    /\ timer' = [timer EXCEPT ![p] = 0]
    /\ UNCHANGED <<x_vars, sel_vars, nprocs, raced, multi_mesh, iteration, mesh, jobs, table, task,
                   todo, cur, seen, ret, adjoint>>

(* ======================= the iteration controller ======================== *)
(* The loop that walks the task sequence and persists the current task is   *)
(* code of the derived optimizers; it follows spec.md 4.3.  The stages      *)
(* prepare_iteration, run_forward, compute_misfit and compute_gradient are  *)
(* the operations above, run by process 1.                                  *)

\* faulty variant of available_tasks: misfits are computed before the forward runs
available_tasks_reordered ==
    <<"prepare_iteration", "compute_misfit", "run_forward", "compute_validation_misfit",
      "compute_gradient", "regularization", "update_model", "documentation">>

\* optimizer.py 23-32
available_tasks ==
    <<"prepare_iteration", "run_forward", "compute_misfit", "compute_validation_misfit",
      "compute_gradient", "regularization", "update_model", "documentation">>

\* a position in the task sequence: iteration and index of the task
NoStage == <<0, 0>>
FirstStage == <<0, 1>>

StageName(c) == available_tasks[c[2]]

DispatchStage(t) == t \in {"run_forward", "compute_misfit", "compute_gradient"}

\* the position after c; validate tells whether the iteration is validated
NextCursor(c, validate) ==
    IF c[2] = Len(available_tasks) THEN <<c[1] + 1, 1>>
    ELSE IF available_tasks[c[2] + 1] = "compute_validation_misfit" /\ ~validate
    THEN <<c[1], c[2] + 2>>
    ELSE <<c[1], c[2] + 1>>

CtlInit ==
    /\ cursor = FirstStage
    /\ ctl_pc = "ready"
    /\ mem = FirstStage
    /\ started = {}
    /\ done = {}
    /\ resumed = FALSE

InStage(t) == ctl_pc = "running" /\ StageName(mem) = t

\* what a stopped process leaves behind: nothing of its memory
ProcessMemoryLost ==
    /\ pc' = [pc EXCEPT ![1] = "idle"]
    /\ task' = [task EXCEPT ![1] = "none"]
    /\ todo' = [todo EXCEPT ![1] = {}]
    /\ cur' = [cur EXCEPT ![1] = 0]
    /\ seen' = [seen EXCEPT ![1] = 0]
    /\ ret' = [ret EXCEPT ![1] = 0]
    /\ timer' = [timer EXCEPT ![1] = 0]
    /\ adjoint' = [adjoint EXCEPT ![1] = FALSE]
    /\ outcome' = [outcome EXCEPT ![1] = "none"]

\* the controller takes up the task at its position
CtlBegin ==
    /\ ctl_pc = "ready"
    /\ mem[1] <= MaxIter
    /\ pc[1] = "idle"
    /\ ctl_pc' = "running"
    /\ started' = started \cup {<<mem[1], StageName(mem)>>}
    /\ outcome' = [outcome EXCEPT ![1] = "none"]
    /\ task' = [task EXCEPT ![1] = "none"]
    /\ prep_pc' = "idle"
    /\ prep_in' = NoIteration
    /\ prep_events' = "None"
    /\ prep_pre' = ProjectState
    /\ prep_out' = NoResult
    /\ UNCHANGED <<cursor, mem, done, resumed>>
    /\ UNCHANGED <<cur_iter, lasif_its, it_tomls, mesh_moved, stf_up>>
    /\ UNCHANGED <<nprocs, multi_mesh, iteration, mesh, jobs, table, pc, todo, cur, seen, ret,
                   timer, adjoint, raced>>
    /\ UNCHANGED <<sel_vars, a_vars, s_vars, w_vars, u_vars>>

\* the stage prepare_iteration: the iteration at the controller's position
PrepareStage ==
    /\ InStage("prepare_iteration")
    /\ PrepareIteration
    /\ prep_in' = ModelName(mem[1])

\* the stage returned: the next task becomes the current one and is persisted
StageCompletes ==
    /\ ctl_pc = "running"
    /\ LET t == StageName(mem)
       IN  /\ DispatchStage(t) => (pc[1] = "idle" /\ task[1] = t /\ outcome[1] = "ok")
           /\ t = "prepare_iteration" => (prep_pc = "called" /\ prep_out = Returned(<<>>))
           /\ done' = done \cup {<<mem[1], t>>}
    /\ \E validate \in BOOLEAN : cursor' = NextCursor(mem, validate)
    /\ mem' = cursor'
    /\ ctl_pc' = "ready"
    /\ resumed' = FALSE
    /\ IF mem[2] = Len(available_tasks)
       THEN /\ iteration' = iteration + 1
            /\ mesh' = [e \in Events |-> "none"]
       ELSE UNCHANGED <<iteration, mesh>>
    /\ UNCHANGED started
    /\ UNCHANGED <<nprocs, multi_mesh, jobs, table, pc, task, todo, cur, seen, ret, timer,
                   adjoint, outcome, raced>>
    /\ UNCHANGED <<sel_vars, a_vars, s_vars, p_vars, w_vars, u_vars>>

\* the stage raised: the error ends the run, the current task stays as it is
StageFails ==
    /\ ctl_pc = "running"
    /\ LET t == StageName(mem)
       IN  /\ DispatchStage(t) =>
                (pc[1] = "idle" /\ task[1] = t
                 /\ outcome[1] \in {"DispatchIncomplete", "RetrievalIncomplete"})
           /\ t = "prepare_iteration" => (prep_pc = "called" /\ prep_out.kind = "error")
    /\ ctl_pc' = "down"
    /\ mem' = NoStage
    /\ UNCHANGED <<cursor, started, done, resumed>>
    /\ UNCHANGED <<sel_vars, d_vars, a_vars, s_vars, p_vars, w_vars, u_vars>>

\* the controller process stops at any point
Crash ==
    /\ ctl_pc \in {"ready", "running"}
    /\ ctl_pc' = "down"
    /\ mem' = NoStage
    /\ ProcessMemoryLost
    /\ UNCHANGED <<cursor, started, done, resumed>>
    /\ UNCHANGED <<nprocs, multi_mesh, iteration, mesh, jobs, table, raced>>
    /\ UNCHANGED <<sel_vars, a_vars, s_vars, p_vars, w_vars, u_vars>>

\* faulty variant of Restart: the run starts over at the first task of the iteration
Restart_from_first_task ==
    /\ ctl_pc = "down"
    /\ ctl_pc' = "ready"
    /\ mem' = <<cursor[1], 1>>
    /\ resumed' = TRUE
    /\ ProcessMemoryLost
    /\ UNCHANGED <<cursor, started, done>>
    /\ UNCHANGED <<nprocs, multi_mesh, iteration, mesh, jobs, table, raced>>
    /\ UNCHANGED <<sel_vars, a_vars, s_vars, p_vars, w_vars, u_vars>>

\* a new controller process reads the persisted current task
Restart ==
    /\ ctl_pc = "down"
    /\ ctl_pc' = "ready"
    /\ mem' = cursor
    /\ resumed' = TRUE
    /\ ProcessMemoryLost
    /\ UNCHANGED <<cursor, started, done>>
    /\ UNCHANGED <<nprocs, multi_mesh, iteration, mesh, jobs, table, raced>>
    /\ UNCHANGED <<sel_vars, a_vars, s_vars, p_vars, w_vars, u_vars>>

(* ======================= the update step and the models ================== *)
(* regularization and update_model are left to the derived optimizers        *)
(* (optimizer.py 358-368); the update step follows spec.md 5: it retrieves   *)
(* the adjoint results in a blocking wait loop, passes the retrieval gate,   *)
(* writes the gradient of iteration n and then the model of iteration n+1,   *)
(* and with its completion the next task becomes the current one.            *)

UpdateInit ==
    /\ gradients = {}
    /\ upd_pc = "idle"

\* faulty variant of NextModel: one index is skipped
NextModel_skipping(n) == n + 2

\* the index of the model the update step of iteration n writes
NextModel(n) == n + 1

\* faulty variant of update_gate: only the forward jobs are looked at
update_gate_forward_only(js, tb, es, it) ==
    assert_all_retrieved(js, tb, es, it, "forward")

\* the retrieval gate of the update step: the forward and the adjoint job of every
\* event of the iteration exist and are terminal
update_gate(js, tb, es, it) ==
    IF /\ assert_all_retrieved(js, tb, es, it, "forward") = "ok"
       /\ assert_all_retrieved(js, tb, es, it, "adjoint") = "ok"
    THEN "ok" ELSE "RetrievalIncomplete"

UpdateFrame ==
    /\ UNCHANGED <<nprocs, multi_mesh, iteration, mesh, table, pc, task, todo, cur, seen, ret,
                   timer, adjoint, outcome, raced>>
    /\ UNCHANGED <<sel_vars, a_vars, s_vars, p_vars, c_vars, w_vars>>

\* one poll of the wait loop: the adjoint results that are there are fetched; the
\* loop ends when every job is terminal, or when the timeout expires
UpdatePoll ==
    /\ InStage("update_model")
    /\ upd_pc = "idle"
    /\ LET ids == {j \in 1..Len(jobs) :
                     /\ jobs[j].iter = iteration
                     /\ jobs[j].kind = "adjoint"
                     /\ jobs[j].status = "Retrievable"}
       IN  jobs' = [j \in 1..Len(jobs) |->
                       IF j \in ids THEN [jobs[j] EXCEPT !.status = "Retrieved"]
                       ELSE jobs[j]]
    /\ \E expired \in BOOLEAN :
         IF expired \/ assert_all_retrieved(jobs', table, events_in_iteration, iteration,
                                            "adjoint") = "ok"
         THEN upd_pc' = "retrieved"
         ELSE upd_pc' = upd_pc
    /\ UNCHANGED gradients
    /\ UpdateFrame

\* the gate after the retrieval
UpdateGate ==
    /\ InStage("update_model")
    /\ upd_pc = "retrieved"
    /\ upd_pc' = IF update_gate(jobs, table, events_in_iteration, iteration) = "ok"
                 THEN "passed" ELSE "failed"
    /\ UNCHANGED <<gradients, jobs>>
    /\ UpdateFrame

\* the gradient of the iteration is written
UpdateWritesGradient ==
    /\ InStage("update_model")
    /\ upd_pc = "passed"
    /\ gradients' = gradients \cup {iteration}
    /\ upd_pc' = "written"
    /\ UNCHANGED jobs
    /\ UpdateFrame

\* the stage update_model returned: the new model is on disk, the next task is
\* the current one and is persisted
UpdateModelCompletes ==
    /\ InStage("update_model")
    /\ run = "up"
    /\ upd_pc = "written"
    /\ upd_pc' = "idle"
    /\ models' = models \cup {NextModel(mem[1])}
    /\ it_num' = NoResult
    /\ done' = done \cup {<<mem[1], "update_model">>}
    /\ \E validate \in BOOLEAN : cursor' = NextCursor(mem, validate)
    /\ mem' = cursor'
    /\ ctl_pc' = "ready"
    /\ resumed' = FALSE
    /\ UNCHANGED <<started, gradients>>
    /\ UNCHANGED <<model_dir, config, run, dirs_init, first_task, init_found>>
    /\ UNCHANGED <<sel_vars, d_vars, a_vars, p_vars, w_vars>>

(* ======================= the remote worker =============================== *)
(* remote_scripts/interpolation.py, run once per job in a working directory *)
(* of its own that holds from_mesh.h5 and output/.  A mesh file is kept as  *)
(* where its geometry came from, the event it is for and whether fields     *)
(* have been interpolated onto it.                                          *)
NoMesh == [src |-> "none", event |-> 0, interp |-> FALSE]

MeshFile(src, event, interp) == [src |-> src, event |-> event, interp |-> interp]

\* what a step of the script produced: the file, or the exception that ends the run
Made(file) == [ok |-> TRUE, file |-> file]
Failed(err) == [ok |-> FALSE, file |-> NoMesh, err |-> err]

\* interpolation.py 14-60: ./to_mesh.h5 after create_mesh
create_mesh(store, long, event) ==
    IF store[event] # NoMesh THEN Made(MeshFile("mesh_folder", event, store[event].interp))
    ELSE IF long[event] # NoMesh
    THEN Made(MeshFile("long_term_mesh_folder", event, long[event].interp))
    ELSE Made(MeshFile("built", event, FALSE))

\* faulty variant of get_standard_gradient: without the stored mesh a fresh one is
\* used
get_standard_gradient_lenient(has_standard) ==
    Made(MeshFile("standard_gradient", 0, FALSE))

\* interpolation.py 63-68: ./to_mesh.h5 after get_standard_gradient
get_standard_gradient(has_standard) ==
    IF has_standard THEN Made(MeshFile("standard_gradient", 0, FALSE))
    ELSE Failed("FileNotFoundError")

\* faulty variant of obtain_target: the gradient flag is not looked at
obtain_target_for_event(in, store, long, has_standard) ==
    create_mesh(store, long, in.event)

\* interpolation.py 176-183
obtain_target(in, store, long, has_standard) ==
    IF ~in.gradient THEN create_mesh(store, long, in.event)
    ELSE get_standard_gradient(has_standard)

\* interpolation.py 80-88, 184-189: ./to_mesh.h5 after interpolate_fields
interpolate_fields(has_from_mesh, to) ==
    IF has_from_mesh THEN Made([to EXCEPT !.interp = TRUE])
    ELSE Failed("FileNotFoundError")

\* faulty variant of move_mesh: the mesh is copied whether or not one is stored
move_mesh_overwriting(store, event, output) ==
    [store EXCEPT ![event] = output]

\* interpolation.py 71-77: the mesh folder after move_mesh
move_mesh(store, event, output) ==
    IF store[event] = NoMesh THEN [store EXCEPT ![event] = output] ELSE store

NoRun == [gradient |-> FALSE, event |-> 0, from_mesh |-> FALSE]

\* the mesh folders as a run finds them
Folders == [store |-> mesh_store, long |-> long_term, standard |-> std_grad]

WorkerInit ==
    /\ mesh_store = [e \in Events |-> NoMesh]
    /\ long_term = [e \in Events |-> NoMesh]
    /\ std_grad = FALSE
    /\ w_pc = "idle"
    /\ w_in = NoRun
    /\ to_mesh = NoMesh
    /\ out_mesh = NoMesh
    /\ sim_doc = FALSE
    /\ w_exit = "none"
    /\ w_log = <<>>
    /\ w_pre = Folders

WorkerFrame == UNCHANGED <<sel_vars, d_vars, a_vars, s_vars, p_vars, c_vars, u_vars>>

\* interpolation.py 172-175: a job starts the script in a fresh working directory
WorkerStart ==
    /\ w_pc \in {"idle", "exited"}
    /\ \E gradient \in BOOLEAN, event \in Events, from_mesh \in BOOLEAN :
         w_in' = [gradient |-> gradient, event |-> event, from_mesh |-> from_mesh]
    /\ w_pc' = "loaded"
    /\ to_mesh' = NoMesh
    /\ out_mesh' = NoMesh
    /\ sim_doc' = FALSE
    /\ w_exit' = "none"
    /\ w_log' = <<>>
    /\ w_pre' = Folders
    /\ UNCHANGED <<mesh_store, long_term, std_grad>>
    /\ WorkerFrame

\* an uncaught exception ends the script
WorkerDies ==
    /\ w_pc' = "exited"
    /\ w_exit' = "fatal"

\* interpolation.py 176-183
WorkerObtainTarget ==
    /\ w_pc = "loaded"
    /\ LET r == obtain_target(w_in, mesh_store, long_term, std_grad)
       IN  IF r.ok
           THEN /\ to_mesh' = r.file
                /\ w_log' = Append(w_log, IF r.file.src = "built" THEN "build" ELSE "copy")
                /\ w_pc' = "target"
                /\ UNCHANGED w_exit
           ELSE /\ WorkerDies
                /\ UNCHANGED <<to_mesh, w_log>>
    /\ UNCHANGED <<mesh_store, long_term, std_grad, w_in, out_mesh, sim_doc, w_pre>>
    /\ WorkerFrame

\* interpolation.py 184-190
WorkerInterpolate ==
    /\ w_pc = "target"
    /\ LET r == interpolate_fields(w_in.from_mesh, to_mesh)
       IN  IF r.ok
           THEN /\ to_mesh' = r.file
                /\ w_log' = Append(w_log, "interpolate")
                /\ w_pc' = "interpolated"
                /\ UNCHANGED w_exit
           ELSE /\ WorkerDies
                /\ UNCHANGED <<to_mesh, w_log>>
    /\ UNCHANGED <<mesh_store, long_term, std_grad, w_in, out_mesh, sim_doc, w_pre>>
    /\ WorkerFrame

\* interpolation.py 191: shutil.move("./to_mesh.h5", "./output/mesh.h5"); a
\* gradient run ends here
WorkerMoveOutput ==
    /\ w_pc = "interpolated"
    /\ out_mesh' = to_mesh
    /\ to_mesh' = NoMesh
    /\ w_log' = Append(w_log, "output")
    /\ IF w_in.gradient
       THEN w_pc' = "exited" /\ w_exit' = "ok"
       ELSE w_pc' = "moved" /\ UNCHANGED w_exit
    /\ UNCHANGED <<mesh_store, long_term, std_grad, w_in, sim_doc, w_pre>>
    /\ WorkerFrame

\* interpolation.py 192-196
WorkerStore ==
    /\ w_pc = "moved"
    /\ mesh_store' = move_mesh(mesh_store, w_in.event, out_mesh)
    /\ w_log' = Append(w_log, "store")
    /\ w_pc' = "stored"
    /\ UNCHANGED <<long_term, std_grad, w_in, to_mesh, out_mesh, sim_doc, w_exit, w_pre>>
    /\ WorkerFrame

\* interpolation.py 197-198 and 91-165: output/simulation_dict.toml is written
WorkerDescribe ==
    /\ w_pc = "stored"
    /\ sim_doc' = TRUE
    /\ w_log' = Append(w_log, "describe")
    /\ w_pc' = "exited"
    /\ w_exit' = "ok"
    /\ UNCHANGED <<mesh_store, long_term, std_grad, w_in, to_mesh, out_mesh, w_pre>>
    /\ WorkerFrame

BetweenRuns == w_pc \in {"idle", "exited"}

\* the standard gradient mesh is put into the mesh folder
ProvideStandardGradient ==
    /\ BetweenRuns
    /\ ~std_grad
    /\ std_grad' = TRUE
    /\ UNCHANGED <<mesh_store, long_term, w_pc, w_in, to_mesh, out_mesh, sim_doc, w_exit,
                   w_log, w_pre>>
    /\ WorkerFrame

\* a stored mesh is copied to the long-term mesh folder
ArchiveMesh ==
    /\ BetweenRuns
    /\ \E e \in Events :
         /\ mesh_store[e] # NoMesh
         /\ long_term[e] = NoMesh
         /\ long_term' = [long_term EXCEPT ![e] = mesh_store[e]]
    /\ UNCHANGED <<mesh_store, std_grad, w_pc, w_in, to_mesh, out_mesh, sim_doc, w_exit,
                   w_log, w_pre>>
    /\ WorkerFrame

\* the scratch file system drops a stored mesh
PurgeScratch ==
    /\ BetweenRuns
    /\ \E e \in Events :
         /\ mesh_store[e] # NoMesh
         /\ mesh_store' = [mesh_store EXCEPT ![e] = NoMesh]
    /\ UNCHANGED <<long_term, std_grad, w_pc, w_in, to_mesh, out_mesh, sim_doc, w_exit,
                   w_log, w_pre>>
    /\ WorkerFrame

(* ----------------------- specifications ---------------------------------- *)
\* one controller process on the project
XInit == ArtInit /\ StartInit /\ PrepInit /\ CtlInit /\ WorkerInit /\ UpdateInit

Init == SelInit /\ DInit /\ XInit /\ nprocs = 1

\* two controller processes started on the same project
InitConcurrent == SelInit /\ DInit /\ XInit /\ nprocs = Cardinality(Procs)

SelNext == SelCall \/ SelRepeat \/ SelForget

ControllerStep(p) ==
    \/ run_forward(p)
    \/ compute_gradient(p)
    \/ compute_misfit(p)
    \/ DispatchLookup(p)
    \/ DispatchSubmit(p)
    \/ run_forward_gate(p)
    \/ compute_gradient_gate(p)
    \/ RetrievePoll(p)
    \/ compute_misfit_gate(p)

RemoteStep == RemoteStart \/ RemoteFinish \/ RemoteFail \/ MeshReady

DNext ==
    \/ \E p \in 1..nprocs : run_forward(p)
    \/ \E p \in 1..nprocs : compute_gradient(p)
    \/ \E p \in 1..nprocs : compute_misfit(p)
    \/ \E p \in 1..nprocs : DispatchLookup(p)
    \/ \E p \in 1..nprocs : DispatchSubmit(p)
    \/ \E p \in 1..nprocs : run_forward_gate(p)
    \/ \E p \in 1..nprocs : compute_gradient_gate(p)
    \/ \E p \in 1..nprocs : RetrievePoll(p)
    \/ \E p \in 1..nprocs : compute_misfit_gate(p)
    \/ RemoteStart
    \/ RemoteFinish
    \/ RemoteFail
    \/ MeshReady

\* the same, over several iterations
INext == DNext \/ NextIteration

\* the selector alone
SpecSelector == Init /\ [][SelNext]_vars

\* one controller process and the remote site, within one iteration
SpecDispatch == Init /\ [][DNext]_vars

\* one controller process and the remote site, over the iterations 0..MaxIter
SpecIterations == Init /\ [][INext]_vars

\* one controller process whose wait loop keeps polling once entered
SpecDispatchFair == Init /\ [][DNext]_vars /\ WF_vars(RetrievePoll(1))

\* two controller processes that both run run_forward, and the remote site
CNext ==
    \/ \E p \in 1..nprocs : run_forward(p)
    \/ \E p \in 1..nprocs : DispatchLookup(p)
    \/ \E p \in 1..nprocs : DispatchSubmit(p)
    \/ \E p \in 1..nprocs : run_forward_gate(p)
    \/ RemoteStart
    \/ RemoteFinish
    \/ RemoteFail
    \/ MeshReady

SpecConcurrent == InitConcurrent /\ [][CNext]_vars

\* the artifact store alone
ArtNext == ArtWrite \/ ArtRead \/ ArtDone \/ ArtifactAppears

SpecArtifacts == Init /\ [][ArtNext]_vars

\* starts of the controller, the operator and the models on disk
StartNext ==
    \/ ChooseProject
    \/ Startup
    \/ Shutdown
    \/ OperatorEditsConfig
    \/ ModelAppears
    \/ ModelRemoved
    \/ ReadIterationNumber

SpecStartup == Init /\ [][StartNext]_vars

\* calls of prepare_iteration
PrepNext == PrepareIteration \/ PrepareDone

SpecPrepare == Init /\ [][PrepNext]_vars

\* the controller walking the task sequence, stopped and restarted at any point,
\* and the remote site
KNext ==
    \/ CtlBegin
    \/ PrepareStage
    \/ InStage("run_forward") /\ task[1] = "none" /\ run_forward(1)
    \/ InStage("compute_misfit") /\ task[1] = "none" /\ compute_misfit(1)
    \/ InStage("compute_gradient") /\ task[1] = "none" /\ compute_gradient(1)
    \/ DispatchLookup(1)
    \/ DispatchSubmit(1)
    \/ run_forward_gate(1)
    \/ compute_gradient_gate(1)
    \/ RetrievePoll(1)
    \/ compute_misfit_gate(1)
    \/ StageCompletes
    \/ StageFails
    \/ Crash
    \/ Restart
    \/ RemoteStart
    \/ RemoteFinish
    \/ RemoteFail
    \/ MeshReady

SpecController == Init /\ [][KNext]_vars

\* one run of the controller on a project: the start that initializes it, the
\* stages and the models the update steps write
MNext ==
    \/ ChooseProject
    \/ OperatorEditsConfig
    \/ Startup
    \/ run = "up" /\ CtlBegin
    \/ PrepareStage
    \/ InStage("run_forward") /\ task[1] = "none" /\ run_forward(1)
    \/ InStage("compute_misfit") /\ task[1] = "none" /\ compute_misfit(1)
    \/ InStage("compute_gradient") /\ task[1] = "none" /\ compute_gradient(1)
    \/ DispatchLookup(1)
    \/ DispatchSubmit(1)
    \/ run_forward_gate(1)
    \/ compute_gradient_gate(1)
    \/ RetrievePoll(1)
    \/ compute_misfit_gate(1)
    \/ ~InStage("update_model") /\ StageCompletes
    \/ UpdatePoll
    \/ UpdateGate
    \/ UpdateWritesGradient
    \/ UpdateModelCompletes
    \/ StageFails
    \/ RemoteStart
    \/ RemoteFinish
    \/ RemoteFail
    \/ MeshReady

SpecModels == Init /\ [][MNext]_vars

\* validation runs on a freshly prepared iteration
VNext ==
    \/ lasif_its = {} /\ jobs = <<>> /\ pc[1] = "idle" /\ PrepareIteration
    \/ PrepareDone
    \/ prep_pc = "idle" /\ compute_validation_misfit(1)
    \/ DispatchLookup(1)
    \/ DispatchSubmit(1)
    \/ validation_dispatch_gate(1)
    \/ RetrievePoll(1)
    \/ report_total_validation_misfit(1)
    \/ RemoteStart
    \/ RemoteFinish
    \/ RemoteFail
    \/ MeshReady

SpecValidation == Init /\ [][VNext]_vars

\* runs of the remote worker, one after the other, and the mesh folders
WNext ==
    \/ WorkerStart
    \/ WorkerObtainTarget
    \/ WorkerInterpolate
    \/ WorkerMoveOutput
    \/ WorkerStore
    \/ WorkerDescribe
    \/ ProvideStandardGradient
    \/ ArchiveMesh
    \/ PurgeScratch

SpecWorker == Init /\ [][WNext]_vars

(* ======================= the minibatch selector ========================= *)
Quota(in) == IF in.first THEN in.num_events ELSE in.batch_size

\* the events the selector may choose from
Selectable(in) == Range(in.events) \ Range(in.blocked)

SelCalled == sel_pc \in {"done", "repeated"}

\* a call on a later iteration whose quota the catalog can satisfy
LaterSatisfiable ==
    /\ SelCalled
    /\ ~sel_in.first
    /\ Quota(sel_in) <= Cardinality(Selectable(sel_in))

(* C1: a call returns a batch of exactly quota events whenever              *)
(* quota <= |all_events - blocked_events|, and otherwise signals            *)
(* SelectionExhausted; it never returns a shorter batch.                    *)
C1_BatchHasQuotaEvents ==
    SelCalled =>
        IF Quota(sel_in) <= Cardinality(Selectable(sel_in))
        THEN sel_out.kind = "batch" /\ Len(sel_out.batch) = Quota(sel_in)
        ELSE sel_out.kind = "error" /\ sel_out.err = "SelectionExhausted"

(* C2: every call, first or later, with or without forced or randomly      *)
(* picked events, returns a batch holding no blocked event.                 *)
C2_BatchAvoidsBlocked ==
    (SelCalled /\ Quota(sel_in) <= Cardinality(Selectable(sel_in))) =>
        /\ sel_out.kind = "batch"
        /\ Range(sel_out.batch) \cap Range(sel_in.blocked) = {}

(* C3: on a later iteration the batch returned holds every event of the     *)
(* control group carried over from the previous iteration.                  *)
C3_ControlGroupInBatch ==
    LaterSatisfiable =>
        /\ sel_out.kind = "batch"
        /\ Range(sel_in.control_group) \subseteq Range(sel_out.batch)

(* C4: the batch returned is duplicate-free, also when control group,       *)
(* forced, randomly picked and newly sampled events overlap.                *)
C4_BatchDuplicateFree ==
    LaterSatisfiable =>
        /\ sel_out.kind = "batch"
        /\ \A a, b \in 1..Len(sel_out.batch) :
               (a # b) => (sel_out.batch[a] # sel_out.batch[b])

(* C5: two calls with identical inputs return the identical batch, the      *)
(* same events in the same order.                                           *)
C5_SameInputsSameBatch ==
    (sel_pc = "repeated" /\ ~sel_in.first
        /\ Quota(sel_in) <= Cardinality(Selectable(sel_in))) =>
        /\ sel_out.kind = "batch"
        /\ sel_out2.kind = "batch"
        /\ sel_out2.batch = sel_out.batch

\* the events of a later batch that were chosen before the sampling: control
\* group, forced and randomly picked events
AlreadyChosen(in) ==
    Range(in.control_group) \cup Range(in.use_these) \cup Range(in.rand)

(* C23: on a later iteration exactly quota - |control_group| - |forced|     *)
(* events are newly sampled, all of them from                               *)
(* all_events - blocked_events - already chosen events.                     *)
C23_SamplesRemainingSlots ==
    (LaterSatisfiable
        /\ Len(sel_in.control_group) + Len(sel_in.use_these) <= Quota(sel_in)) =>
        /\ sel_out.kind = "batch"
        /\ LET sampled == Range(sel_out.batch) \ AlreadyChosen(sel_in)
           IN  /\ Cardinality(sampled)
                     = Quota(sel_in) - Len(sel_in.control_group) - Len(sel_in.use_these)
               /\ sampled \subseteq Selectable(sel_in) \ AlreadyChosen(sel_in)

\* probes of the first batch
FirstBatchOk ==
    (SelCalled /\ sel_in.first) =>
        IF sel_in.num_events <= Len(sel_in.events)
        THEN sel_out.kind = "batch" /\ Len(sel_out.batch) = sel_in.num_events
        ELSE sel_out.kind = "error"
LaterNeverReturns == (SelCalled /\ ~sel_in.first) => sel_out = Raised("TypeError")

(* =================== the dispatch coordinator: claims =================== *)
\* the jobs of a key that have not reached a terminal state
LiveIds(js, key) ==
    {j \in 1..Len(js) : JobKey(js[j]) = key /\ ~Terminal(js[j].status)}

\* the identifiers of the jobs submitted in the current step
NewIds == (Len(jobs) + 1)..Len(jobs')

\* process p's dispatch loop handles event e in the current step
Handles(p, e) ==
    /\ pc[p] = "dispatch"
    /\ e \in todo[p]
    /\ e \notin todo'[p]

RequestedForward == {<<e, iteration, "forward">> : e \in events_in_iteration}

(* C6: dispatch is idempotent.  In every state a key has at most one job     *)
(* that is not terminal; a dispatch for a key that has such a job submits    *)
(* nothing for it and hands back the identifier of that job.                 *)
C6_DispatchIdempotent ==
    /\ [](\A key \in Keys : Cardinality(LiveIds(jobs, key)) <= 1)
    /\ [][\A key \in Keys : \A id \in LiveIds(jobs, key) :
             /\ \A j \in NewIds : JobKey(jobs'[j]) # key
             /\ \A p \in Procs :
                  (key[2] = iteration /\ key[3] = KindOf(task[p]) /\ Handles(p, key[1]))
                      => ret'[p] = id]_vars

\* a second run_forward was handed the job the first one had submitted
C6_Witness ==
    /\ pc[1] = "dispatch"
    /\ task[1] = "run_forward"
    /\ ret[1] # 0
    /\ ret[1] < Len(jobs)
    /\ ~Terminal(jobs[ret[1]].status)

C8_StatusMovesForward ==
    [][/\ Len(jobs') >= Len(jobs)
       /\ \A j \in NewIds : jobs'[j].status = "Submitted"
       /\ \A j \in 1..Len(jobs) :
            /\ JobKey(jobs'[j]) = JobKey(jobs[j])
            /\ Rank(jobs'[j].status) >= Rank(jobs[j].status)
            /\ Terminal(jobs[j].status) => jobs'[j].status = jobs[j].status]_vars

\* one job went all the way to Retrieved, another one Failed
C8_Witness ==
    /\ \E j \in 1..Len(jobs) : jobs[j].status = "Retrieved"
    /\ \E j \in 1..Len(jobs) : jobs[j].status = "Failed"

(* C9: the gate after a retrieval ends in RetrievalIncomplete exactly when   *)
(* a requested job is missing or not terminal, and succeeds otherwise; the   *)
(* gate after a dispatch ends in DispatchIncomplete exactly when a requested *)
(* job has not been submitted.                                               *)
C9_GatesRaiseExactlyWhenIncomplete ==
    [][\A p \in Procs :
         /\ (pc[p] = "retrieved" /\ pc'[p] = "idle") =>
               outcome'[p] =
                  IF \E key \in RequestedForward :
                        table[key] = 0 \/ ~Terminal(jobs[table[key]].status)
                  THEN "RetrievalIncomplete" ELSE "ok"
         /\ (pc[p] = "dispatch" /\ pc'[p] = "idle") =>
               outcome'[p] =
                  IF \E e \in events_in_iteration :
                        table[<<e, iteration, KindOf(task[p])>>] = 0
                  THEN "DispatchIncomplete" ELSE "ok"]_vars

\* compute_misfit ended in RetrievalIncomplete with exactly one requested job
\* still Running and the others Retrieved
C9_Witness ==
    /\ pc[1] = "idle"
    /\ task[1] = "compute_misfit"
    /\ outcome[1] = "RetrievalIncomplete"
    /\ \E key \in RequestedForward :
         /\ table[key] # 0
         /\ jobs[table[key]].status = "Running"
         /\ \A other \in RequestedForward \ {key} :
              table[other] # 0 /\ jobs[table[other]].status = "Retrieved"

(* C10: a retrieve call has returned only if every requested job is          *)
(* Retrieved or Failed or the timeout has expired, and every retrieve call    *)
(* eventually returns.                                                        *)
C10_RetrieveBlocksAndReturns ==
    /\ [](\A p \in Procs : pc[p] = "retrieved" =>
             \/ \A key \in RequestedForward :
                   table[key] # 0 /\ Terminal(jobs[table[key]].status)
             \/ timer[p] = 0)
    /\ \A p \in Procs : (pc[p] = "retrieve") ~> (pc[p] = "retrieved")

\* a retrieve call returned before its timeout because every job was terminal
C10_Witness ==
    /\ pc[1] = "retrieved"
    /\ timer[1] > 0
    /\ \A key \in RequestedForward :
         table[key] # 0 /\ Terminal(jobs[table[key]].status)

(* ======================= the artifact store: claims ====================== *)
\* the write under observation went to an existing artifact
WroteExisting == art_pc # "idle" /\ art_pre[art_in.file].exists

\* the configured names are distinct and stored in the artifact
DistinctStored(parameters) ==
    /\ \A i, j \in 1..Len(parameters) : parameters[i] = parameters[j] => i = j
    /\ \A i \in 1..Len(parameters) : \E k \in 1..NumLabels : StoredLabels[k] = parameters[i]

\* the storage position of a stored parameter
PositionOf(name) == CHOOSE k \in 1..NumLabels : StoredLabels[k] = name

\* C16: for an existing artifact and a list P of distinct parameters of it, in any
\* order, set_h5_data(file, T) followed by get_h5_data(file) returns T exactly, and
\* slice i is what was written for (and is stored under) the i-th parameter of P
C16_RoundTrip ==
    (art_pc = "read" /\ WroteExisting /\ DistinctStored(art_in.parameters)) =>
        /\ art_out = Returned(<<>>)
        /\ art_read = Returned(art_in.data)
        /\ \A i \in 1..Len(art_in.parameters) :
             art_store[art_in.file].data[PositionOf(art_in.parameters[i])] = art_in.data[i]

\* a round trip with the parameters listed against the storage order and
\* different data for each
C16_Witness ==
    /\ art_pc = "read"
    /\ WroteExisting
    /\ art_in.parameters = <<StoredLabels[NumLabels], StoredLabels[1]>>
    /\ art_in.data = <<1, 0>>
    /\ art_read = Returned(<<1, 0>>)

\* C17: a write changes only the slices of the configured parameters: every stored
\* slice of a parameter that is not configured, in any artifact, is as before
C17_WriteTouchesOnlyConfigured ==
    art_pc # "idle" =>
        \A f \in FileNames :
            /\ art_store[f].exists = art_pre[f].exists
            /\ art_store[f].labels = art_pre[f].labels
            /\ \A k \in 1..Len(art_pre[f].data) :
                 (f # art_in.file \/ \A i \in 1..Len(art_in.parameters) :
                                        art_in.parameters[i] # StoredLabels[k])
                     => art_store[f].data[k] = art_pre[f].data[k]

\* a write that changed a configured slice next to a non-zero slice that is not
\* configured
C17_Witness ==
    /\ art_pc = "written"
    /\ WroteExisting
    /\ art_out = Returned(<<>>)
    /\ art_store # art_pre
    /\ \E k \in 1..NumLabels :
         /\ \A i \in 1..Len(art_in.parameters) : art_in.parameters[i] # StoredLabels[k]
         /\ art_pre[art_in.file].data[k] # 0

\* C18: set_h5_data on a filename without artifact fails and creates nothing: the
\* existing artifacts are the same after the failed call as before it
C18_WriteToMissingFails ==
    (art_pc # "idle" /\ ~art_pre[art_in.file].exists) =>
        /\ art_out = Raised("Exception")
        /\ art_store = art_pre
        /\ {f \in FileNames : art_store[f].exists} = {f \in FileNames : art_pre[f].exists}

\* a refused write into a file that does not exist, next to one that does
C18_Witness ==
    /\ art_pc = "written"
    /\ ~art_pre[art_in.file].exists
    /\ art_out = Raised("Exception")
    /\ \E f \in FileNames : art_store[f].exists

(* ======================= numbering and start-up: claims ================== *)
\* the largest number among the model artifacts on disk, 0 without any
NewestModel == IF models = {} THEN 0 ELSE CHOOSE m \in models : \A k \in models : k <= m

\* C13: iteration_number equals the largest index in the names of the model
\* artifacts that exist, and 0 when none exist
C13_IterationNumberIsNewestModel ==
    it_num # NoResult => it_num = PyInt(NewestModel)

\* the same in a project whose directory names contain no dot
IterationNumberInPlainDir ==
    (it_num # NoResult /\ model_dir = PlainDir) => it_num = PyInt(NewestModel)

\* iteration_number read as 1 once model_00001 is on disk
IterationNumberOne ==
    /\ model_dir = PlainDir
    /\ models = {0, 1}
    /\ it_num = PyInt(1)

\* C19: a start without configuration file writes the default configuration, with
\* an empty initial_model, and halts; every start with an empty initial_model
\* halts; neither initializes the directories or issues a task
C19_HaltsUntilInitialModelIsSet ==
    [][(~config.exists \/ config.initial_model = "") =>
          /\ dirs_init' = dirs_init
          /\ first_task' = first_task
          /\ run' # "up"
          /\ (run' # run => run' = "halted" /\ config' = DefaultConfig /\ models' = models)]_vars

\* the controller halted on the configuration it wrote itself
C19_Witness ==
    /\ run = "halted"
    /\ config = DefaultConfig
    /\ ~dirs_init
    /\ ~first_task

(* ======================= prepare_iteration: claims ======================= *)
\* the call under observation found its iteration name registered already
PreparedExisting == prep_pc = "called" /\ has_iteration(prep_pre.iterations, prep_in)

\* C12: when the iteration name is already registered, prepare_iteration fails with
\* the already-exists error and leaves everything as it was: the recorded current
\* iteration, the registered iterations, the bookkeeping records; no mesh is moved,
\* nothing uploaded
C12_FailedPrepareChangesNothing ==
    PreparedExisting =>
        /\ prep_out = Raised("InversionsonError: already exists")
        /\ ProjectState = prep_pre

\* the part of it that does not concern the recorded current iteration
FailedPrepareKeepsCatalog ==
    PreparedExisting =>
        /\ prep_out = Raised("InversionsonError: already exists")
        /\ ProjectState = [prep_pre EXCEPT !.current_iteration = prep_in]

(* ======================= the iteration controller: claims ================ *)
\* the order of the stages within an iteration
StageOrder ==
    <<"prepare_iteration", "run_forward", "compute_misfit", "compute_validation_misfit",
      "compute_gradient", "regularization", "update_model", "documentation">>

PlaceOf(t) == CHOOSE k \in 1..Len(StageOrder) : StageOrder[k] = t

\* the stage completed, or it is the optional one and was left out
CompletedOrSkipped(n, t) ==
    \/ <<n, t>> \in done
    \/ t = "compute_validation_misfit" /\ <<n, t>> \notin started

\* every stage that comes before task t of iteration n has completed
PredecessorsCompleted(n, t) ==
    /\ \A k \in 1..(PlaceOf(t) - 1) : CompletedOrSkipped(n, StageOrder[k])
    /\ n > 0 => \A k \in 1..Len(StageOrder) : CompletedOrSkipped(n - 1, StageOrder[k])

\* the controller takes up a stage in this step
StageBegins == ctl_pc = "ready" /\ ctl_pc' = "running"

GateErrors == {"DispatchIncomplete", "RetrievalIncomplete"}

\* C11: run_forward, compute_misfit and compute_gradient return normally only if
\* every event of the iteration has its job dispatched (resp. retrieved); when the
\* gate fails the error ends the run, no job is submitted again and the current task
\* does not advance
C11_WrappersReturnOnlyWhenComplete ==
    [][/\ (outcome'[1] = "ok" /\ outcome[1] # "ok") =>
            \A e \in Events :
                LET id == table'[<<e, iteration, KindOf(task'[1])>>]
                IN  /\ id # 0
                    /\ task'[1] = "compute_misfit" => jobs'[id].status \in {"Retrieved", "Failed"}
       /\ (outcome'[1] \in GateErrors /\ outcome[1] \notin GateErrors) =>
            (jobs' = jobs /\ table' = table /\ cursor' = cursor)
       /\ outcome[1] \in GateErrors =>
            /\ Len(jobs') = Len(jobs)
            /\ table' = table
            /\ cursor' = cursor
            /\ ctl_pc = "running" => ctl_pc' \in {"running", "down"}
       /\ (cursor' # cursor /\ DispatchStage(StageName(cursor))) =>
            (outcome[1] = "ok" /\ task[1] = StageName(cursor))]_vars

\* run_forward failed at its gate; the run is over and the current task is still
\* run_forward
C11_Witness ==
    /\ ctl_pc = "down"
    /\ task[1] = "run_forward"
    /\ outcome[1] = "DispatchIncomplete"
    /\ StageName(cursor) = "run_forward"

\* C14: within an iteration the stages are taken up in the order prepare_iteration,
\* run_forward, compute_misfit, (optional) compute_validation_misfit,
\* compute_gradient, regularization, update_model, documentation, none before its
\* predecessor has completed; after documentation of iteration n comes
\* prepare_iteration of iteration n + 1
C14_StagesInOrder ==
    [][/\ StageBegins => PredecessorsCompleted(mem[1], StageName(mem))
       /\ \A n \in 0..MaxIter :
            (<<n, "documentation">> \in done' /\ <<n, "documentation">> \notin done) =>
                (cursor' = <<n + 1, 1>> /\ StageName(cursor') = "prepare_iteration")]_vars

\* prepare_iteration of iteration 1 taken up after documentation of iteration 0
C14_Witness ==
    /\ <<0, "documentation">> \in done
    /\ <<1, "prepare_iteration">> \in started
    /\ <<0, "compute_validation_misfit">> \notin started

Submitted == {j \in 1..Len(jobs') : j > Len(jobs)}

\* C20: with two meshes no forward simulation of an event is submitted before the
\* mesh preparation of that event for the iteration has completed, in an iteration
\* that has been prepared
C20_MeshReadyBeforeForward ==
    [][\A j \in Submitted :
          (multi_mesh /\ jobs'[j].kind = "forward") =>
              /\ mesh[jobs'[j].event] = "ready"
              /\ jobs'[j].iter = iteration
              /\ <<iteration, "prepare_iteration">> \in done]_vars

\* with two meshes, a forward job on record and its event's mesh ready
C20_Witness ==
    /\ multi_mesh
    /\ \E j \in 1..Len(jobs) :
         /\ jobs[j].kind = "forward"
         /\ jobs[j].iter = iteration
         /\ mesh[jobs[j].event] = "ready"


(* ----------------------- the remote worker's claims ---------------------- *)
\* the steps of the run so far that are one of `names`
StepsAt(names) == {i \in 1..Len(w_log) : w_log[i] \in names}

\* every step of `later` in the run has a step of `earlier` before it
Precedes(earlier, later) ==
    \A i \in StepsAt(later) : \E j \in StepsAt(earlier) : j < i

\* C21: a run that ends well has written the simulation description and passed
\* the store step exactly when gradient is false; a gradient run's target is the
\* stored standard-gradient mesh; interpolation comes after the target is there
\* and before the output mesh, and the description after the output mesh
C21_ForwardRunDescribesAndStores ==
    /\ w_exit = "ok" =>
         /\ sim_doc <=> ~w_in.gradient
         /\ (StepsAt({"store"}) # {}) <=> ~w_in.gradient
         /\ out_mesh # NoMesh
    /\ w_pc = "stored" => mesh_store[w_in.event] # NoMesh
    /\ (w_in.gradient /\ w_pc \notin {"idle", "exited"}) => mesh_store = w_pre.store
    /\ \A file \in {to_mesh, out_mesh} :
         (w_in.gradient /\ file # NoMesh) => file.src = "standard_gradient"
    /\ Precedes({"build", "copy"}, {"interpolate"})
    /\ Precedes({"interpolate"}, {"output"})
    /\ Precedes({"output"}, {"store", "describe"})
    /\ out_mesh # NoMesh => out_mesh.interp
    /\ sim_doc => out_mesh # NoMesh

C21_Witness ==
    /\ w_exit = "ok"
    /\ ~w_in.gradient
    /\ sim_doc
    /\ w_log = <<"build", "interpolate", "output", "store", "describe">>

C21_GradientWitness ==
    /\ w_exit = "ok"
    /\ w_in.gradient
    /\ out_mesh = MeshFile("standard_gradient", 0, TRUE)

\* a file the run needs is not there: from_mesh.h5, or on a gradient run the
\* stored standard-gradient mesh
MissingArtifact == ~w_in.from_mesh \/ (w_in.gradient /\ ~w_pre.standard)

\* C22: a run that misses a required file never ends well, writes neither the
\* output mesh nor the simulation description and stores no mesh
C22_MissingArtifactIsFatal ==
    (w_pc # "idle" /\ MissingArtifact) =>
        /\ w_exit # "ok"
        /\ w_pc = "exited" => w_exit = "fatal"
        /\ out_mesh = NoMesh
        /\ ~sim_doc
        /\ StepsAt({"store"}) = {}
        /\ w_pc # "exited" => mesh_store = w_pre.store

C22_Witness ==
    /\ w_pc = "exited"
    /\ w_exit = "fatal"
    /\ w_in.gradient
    /\ w_in.from_mesh
    /\ ~w_pre.standard

C22_SourceMeshWitness ==
    /\ w_pc = "exited"
    /\ w_exit = "fatal"
    /\ ~w_in.gradient
    /\ ~w_in.from_mesh

\* the run took a step
WorkerStep == w_pc' # w_pc

\* C29: no step of a run changes a mesh the mesh folder already holds, and a
\* run builds a mesh only when neither folder holds one for its event
C29_MeshStoreWriteOnce ==
    [][WorkerStep =>
         /\ \A e \in Events : mesh_store[e] # NoMesh => mesh_store'[e] = mesh_store[e]
         /\ (w_log' # w_log /\ w_log' # <<>> /\ w_log'[Len(w_log')] = "build") =>
              /\ mesh_store[w_in.event] = NoMesh
              /\ long_term[w_in.event] = NoMesh]_vars

C29_Witness ==
    /\ w_pc = "stored"
    /\ w_pre.store[w_in.event] # NoMesh
    /\ mesh_store[w_in.event] = w_pre.store[w_in.event]
    /\ out_mesh # mesh_store[w_in.event]


(* ----------------------- the frozen event set ---------------------------- *)
\* the events of the iteration as lines 233-236 choose them, `catalog` being
\* what is taken when no list is given and the iteration is not a validation one
EventsChosen(events, it_name, catalog) ==
    IF events # "None" THEN events
    ELSE IF IsValidation(it_name) THEN "validation_dataset"
    ELSE catalog

\* a step keeps every registered iteration and its events, and an iteration it
\* registers is the one prepare_iteration was called for, not registered
\* before, with the events chosen
RegistersFrom(catalog) ==
    /\ \A it \in lasif_its : it \in lasif_its'
    /\ \A it \in lasif_its' \ lasif_its :
         /\ ~has_iteration(lasif_its, it.name)
         /\ it = Registered(prep_in', EventsChosen(prep_events', prep_in', catalog))

Started == run # "up" /\ run' # run

\* the step initialized the directories or issued the first task
Initializes ==
    \/ dirs_init' # dirs_init
    \/ first_task' # first_task
    \/ init_found'.done # init_found.done
    \/ init_found'.found # init_found.found

\* C28: the directories are initialized and the first task is issued only by a
\* start that finds no model 0, both together, and a start that finds model 0
\* initializes nothing and leaves the models as they are
C28_InitializesOnlyWithoutModelZero ==
    [][/\ Initializes =>
            /\ Started
            /\ 0 \notin models
            /\ dirs_init' /\ first_task'
            /\ init_found' = InitializedOn(models)
       /\ (Started /\ 0 \in models) => (~Initializes /\ models' = models)
       /\ init_found.done => 0 \notin init_found.found]_vars

\* a start after an earlier one had initialized, model 0 still there, went up
C28_Witness ==
    /\ run = "up"
    /\ init_found = [InitializedOn({}) EXCEPT !.kept = TRUE]
    /\ models = {0, 1}
    /\ dirs_init
    /\ first_task


(* ----------------------- the models on disk ------------------------------ *)
\* the indices of the models form a range that starts at 0
GapFree(present) == \A n \in present : \A k \in 0..n : k \in present

\* every model but the first was written by a completed update step
WrittenByUpdate == \A n \in models : n > 0 => <<n - 1, "update_model">> \in done

\* iteration_number as it would be read now
NumberNow == iteration_number(model_dir, models)

\* of two readings of iteration_number that are numbers, the later is not below
\* the earlier
NotBelow(earlier, later) == (earlier.t = "int" /\ later.t = "int") => later.i >= earlier.i

\* C25: the indices of the models on disk are gap-free from 0, iteration_number
\* as a number never decreases, and model n+1 is there only once update_model of
\* iteration n has completed
C25_ModelsGrowWithoutGaps ==
    [][/\ GapFree(models')
       /\ WrittenByUpdate'
       /\ \A dir \in ModelDirs, present \in SUBSET (0..MaxModel) :
            (model_dir' = dir /\ models' = present) =>
                NotBelow(NumberNow, iteration_number(dir, present))]_vars

C25_Witness ==
    /\ model_dir = PlainDir
    /\ models = {0, 1}
    /\ NumberNow = PyInt(1)
    /\ <<0, "update_model">> \in done


(* ----------------------- writes to the artifacts ------------------------- *)
\* the step writes a model or a gradient artifact
WritesArtifact == models' # models \/ gradients' # gradients

\* the jobs of iteration n that are on record and not terminal
NonTerminalJobs(n) ==
    {j \in 1..Len(jobs) : jobs[j].iter = n /\ ~Terminal(jobs[j].status)}

\* the initializing start puts the first model in place
WritesInitialModel ==
    /\ Started
    /\ models' = models \cup {0}
    /\ gradients' = gradients
    /\ NonTerminalJobs(0) = {}

\* the controller, in its update step after the gate, writes the gradient of its
\* iteration or the model that follows from it
WritesInUpdateStep ==
    /\ InStage("update_model")
    /\ upd_pc \in {"passed", "written"}
    /\ models' \ models \subseteq {iteration + 1}
    /\ gradients' \ gradients \subseteq {iteration}
    /\ models \subseteq models' /\ gradients \subseteq gradients'
    /\ assert_all_retrieved(jobs, table, events_in_iteration, iteration, "forward") = "ok"
    /\ assert_all_retrieved(jobs, table, events_in_iteration, iteration, "adjoint") = "ok"
    /\ NonTerminalJobs(iteration) = {}

\* C26: a model or gradient artifact is written only by the controller, at its
\* initializing start or in the update step after the retrieval gate has
\* passed, and never while a forward or adjoint job of the iteration is
\* non-terminal
C26_WritesOnlyAfterRetrievalGate ==
    [][WritesArtifact => (WritesInitialModel \/ WritesInUpdateStep)]_vars

C26_Witness ==
    /\ gradients = {0}
    /\ models = {0, 1}
    /\ \E j \in 1..Len(jobs) :
         jobs[j].iter = 0 /\ jobs[j].kind = "adjoint" /\ jobs[j].status = "Retrieved"


(* ----------------------- validation runs --------------------------------- *)
\* the validation misfit has been reported
ValidationReported ==
    /\ task[1] = "compute_validation_misfit"
    /\ pc[1] = "idle"
    /\ outcome[1] = "reported"

\* the status of the validation job of an event
ValidationStatus(e) == StatusOf(jobs, table, <<e, iteration, "forward">>)

\* the jobs on record are forward jobs of validation events, not two of them live
\* for one event, and were submitted in a validation iteration
OnlyValidationForwardJobs ==
    /\ \A j \in 1..Len(jobs) :
         /\ jobs[j].kind = "forward"
         /\ jobs[j].event \in validation_dataset
         /\ \A k \in 1..Len(jobs) :
              (k # j /\ JobKey(jobs[k]) = JobKey(jobs[j])) =>
                  (Terminal(jobs[j].status) \/ Terminal(jobs[k].status))
    /\ jobs # <<>> => IsValidation(cur_iter)

\* C27: a validation run dispatches one forward job per validation event, never
\* an adjoint job, nothing outside a validation iteration, and reports the
\* validation misfit only when every validation job has been dispatched and
\* retrieved
C27_ValidationReportsAfterRetrieval ==
    /\ OnlyValidationForwardJobs
    /\ ValidationReported =>
         \A e \in validation_dataset : Terminal(ValidationStatus(e))

\* the same with the report only known to come after the dispatch of every
\* validation job
ValidationReportsAfterDispatch ==
    /\ OnlyValidationForwardJobs
    /\ ValidationReported =>
         \A e \in validation_dataset : ValidationStatus(e) # "NotSubmitted"

\* the misfit was reported with a validation job still running
ReportedWhileRunning ==
    /\ ValidationReported
    /\ \E e \in validation_dataset : ValidationStatus(e) = "Running"

====
